---- MODULE Spec2Model ----
(***************************************************************************)
(* BB84-style key agreement of qkd_sender.py (Alice) and qkd_receiver.py   *)
(* (Bob) over one byte stream per direction, with the optional             *)
(* man-in-the-middle of eve.py, and the seed derivation of utils.py.       *)
(*                                                                         *)
(* Text on the wire is a sequence of tokens: the decimal digits, the       *)
(* separators "," and ":", and one token for each tag, literal or reason.  *)
(* A stream is the sequence of the texts written and not yet read; one     *)
(* recv() may return several of them glued together.                       *)
(***************************************************************************)
EXTENDS Integers, Sequences, FiniteSets, TLC

\* ------------------------------------------------------------------ bounds
\* largest args.photon_count of a session with unrestricted random draws
MaxPhotons == 3
\* largest args.key_length on either side in those sessions (the other is 1)
MaxKeyLength == 2
\* largest args.photon_count of a session with the interceptor spliced in
EvePhotons == 2
\* photons beyond the seed-derivation minimum in the long sessions
LongExtra == 2
\* leading photons of a long session whose bit is drawn freely
LongFreeBits == 3
\* leading photons of a long session whose bases are drawn freely
LongFreeBases == 1

\* photons of a session with a peer that is not the other role
PeerPhotons == 2

\* longest bit string, largest count and largest index the peer writes
PeerPayload == 2

\* photons of the sessions that exercise the size of the verification
\* sample: a quarter of the sifted key can exceed twice a key length of 1
SamplePhotons == 12

\* the largest sample of such a session
SampleMax == SamplePhotons \div 4

\* photons of the runs followed through the hopping phase
SessionPhotons == 2
\* args.photon_count in the sessions of the liveness check
LivePhotons == 2

\* states of the generator that stands for random.Random
RngMod == 16

\* longest message of the frequency-hopping phase, and largest length asked
\* of generate_hopping_pattern
MaxMessage == 2

\* draws from the global generator followed between two calls of
\* generate_hopping_pattern
MaxDraws == 2

\* ------------------------------------------------------- program constants
\* utils.derive_seed_from_key refuses keys shorter than this
MinSeedKeyLen == 8

\* ---------------------------------------------------------------- helpers
Range(s) == {s[k] : k \in 1..Len(s)}

Min(a, b) == IF a <= b THEN a ELSE b

Max(a, b) == IF a >= b THEN a ELSE b

\* Python's 0-based s[i]
At(s, i) == s[i + 1]

\* range(n) as a sequence
RangeSeq(n) == [k \in 1..n |-> k - 1]

Digits == <<"0", "1", "2", "3", "4", "5", "6", "7", "8", "9">>

IsDigit(t) == t \in Range(Digits)

DigitVal(t) == CHOOSE d \in 0..9 : Digits[d + 1] = t

\* str(n) for n >= 0
RECURSIVE StrOfNat(_)
StrOfNat(n) ==
    IF n < 10 THEN <<Digits[n + 1]>>
    ELSE StrOfNat(n \div 10) \o <<Digits[(n % 10) + 1]>>

\* str(n)
StrOfInt(n) == IF n < 0 THEN <<"-">> \o StrOfNat(0 - n) ELSE StrOfNat(n)

\* does int(s) succeed (otherwise ValueError)
IsNatStr(s) == Len(s) >= 1 /\ \A k \in 1..Len(s) : IsDigit(s[k])

IsIntStr(s) ==
    \/ IsNatStr(s)
    \/ Len(s) >= 2 /\ s[1] = "-" /\ IsNatStr(Tail(s))

RECURSIVE NatOfStr(_)
NatOfStr(s) ==
    IF Len(s) = 1 THEN DigitVal(s[1])
    ELSE 10 * NatOfStr(SubSeq(s, 1, Len(s) - 1)) + DigitVal(s[Len(s)])

\* int(s), defined where IsIntStr(s)
IntOfStr(s) == IF s[1] = "-" THEN 0 - NatOfStr(Tail(s)) ELSE NatOfStr(s)

\* sep.join(parts), parts a sequence of token strings
RECURSIVE Join(_, _)
Join(parts, sep) ==
    IF Len(parts) = 0 THEN <<>>
    ELSE IF Len(parts) = 1 THEN parts[1]
    ELSE parts[1] \o <<sep>> \o Join(Tail(parts), sep)

\* s.split(sep): always at least one piece
RECURSIVE Split(_, _)
Split(s, sep) ==
    IF \A k \in 1..Len(s) : s[k] # sep THEN <<s>>
    ELSE LET p == CHOOSE k \in 1..Len(s) :
                      s[k] = sep /\ \A m \in 1..(k - 1) : s[m] # sep
         IN  <<SubSeq(s, 1, p - 1)>> \o Split(SubSeq(s, p + 1, Len(s)), sep)

\* s.split(sep, 1)
Split1(s, sep) ==
    IF \A k \in 1..Len(s) : s[k] # sep THEN <<s>>
    ELSE LET p == CHOOSE k \in 1..Len(s) :
                      s[k] = sep /\ \A m \in 1..(k - 1) : s[m] # sep
         IN  <<SubSeq(s, 1, p - 1), SubSeq(s, p + 1, Len(s))>>

\* [str(x) for x in xs]
StrEach(xs) == [k \in 1..Len(xs) |-> StrOfInt(xs[k])]

\* ",".join(map(str, xs))
CommaJoin(xs) == Join(StrEach(xs), ",")

\* "".join(parts)
RECURSIVE Flatten(_)
Flatten(parts) ==
    IF Len(parts) = 0 THEN <<>> ELSE parts[1] \o Flatten(Tail(parts))

\* "".join(map(str, xs))
Concat(xs) == Flatten(StrEach(xs))

\* the tokens that are more than one character wide, with their widths (a
\* reason stands for a text at least as long as its label)
TokenWidth ==
    ("OK" :> 2) @@ ("SYNC" :> 4) @@ ("ABORT" :> 5) @@ ("BOB_BASES" :> 9)
    @@ ("QBER_HIGH" :> 9) @@ ("CHECK_BITS" :> 10) @@ ("CONFIRM_KEY" :> 11)
    @@ ("PHOTONS_SENT" :> 12) @@ ("Sender Error" :> 12)
    @@ ("Receiver Error" :> 14) @@ ("MATCH_INDICES_REL" :> 17)
    @@ ("CHECK_INDICES_REL_SIFT" :> 22)

\* len(s) of a text
RECURSIVE TextLen(_)
TextLen(s) ==
    IF Len(s) = 0 THEN 0
    ELSE (IF s[1] \in DOMAIN TokenWidth THEN TokenWidth[s[1]] ELSE 1)
         + TextLen(Tail(s))

\* s.startswith(p)
StartsWith(s, p) == Len(s) >= Len(p) /\ SubSeq(s, 1, Len(p)) = p

\* s[n:]
From(s, n) == SubSeq(s, n + 1, Len(s))

\* recv() without a timeout: it blocks until data arrives or the writer
\* closes
RecvOutcomesBlocking(stream, writerClosed, quiet) ==
    IF Len(stream) = 0
    THEN IF writerClosed
         THEN {[st |-> "closed", data |-> <<>>, rest |-> <<>>]}
         ELSE {}
    ELSE {[st |-> "data",
           data |-> Flatten(SubSeq(stream, 1, k)),
           rest |-> SubSeq(stream, k + 1, Len(stream))] : k \in 1..Len(stream)}

\* ------------------------------------------------------------ byte streams
\* A stream holds the texts written by sendall() and not yet read, oldest
\* first.  One recv() returns the text of one or more whole queued frames,
\* or b'' once the stream is empty and the writer has closed, or raises
\* socket.timeout while the stream is empty and the writer is still open.
\* Scheduling is taken to be timely: a party that can run or has data to
\* read does so well within SOCKET_TIMEOUT, so a timeout is raised only
\* when nothing is on its way (quiet).
RecvOutcomes(stream, writerClosed, quiet) ==
    IF Len(stream) = 0
    THEN IF writerClosed
         THEN {[st |-> "closed", data |-> <<>>, rest |-> <<>>]}
         ELSE IF quiet
         THEN {[st |-> "timeout", data |-> <<>>, rest |-> <<>>]}
         ELSE {}
    ELSE {[st |-> "data",
           data |-> Flatten(SubSeq(stream, 1, k)),
           rest |-> SubSeq(stream, k + 1, Len(stream))] : k \in 1..Len(stream)}

\* f"P:{basis},{bit}"
PhotonText(basis, bit) ==
    <<"P", ":">> \o StrOfInt(basis) \o <<",">> \o StrOfInt(bit)

\* f"{data_type}:{data}"
PublicText(data_type, data) == <<data_type, ":">> \o data

\* QuantumChannel.receive_photon on the outcome of its recv()
receive_photon(raw) ==
    IF raw.st # "data" THEN [kind |-> "none", basis |-> 0, bit |-> 0, data |-> <<>>]
    ELSE IF StartsWith(raw.data, <<"P", ":">>)
    THEN LET parts == Split(From(raw.data, 2), ",")
         IN  IF Len(parts) = 2
             THEN IF IsIntStr(parts[1]) /\ IsIntStr(parts[2])
                  THEN [kind |-> "photon", basis |-> IntOfStr(parts[1]),
                        bit |-> IntOfStr(parts[2]), data |-> <<>>]
                  ELSE [kind |-> "none", basis |-> 0, bit |-> 0, data |-> <<>>]
             ELSE [kind |-> "none", basis |-> 0, bit |-> 0, data |-> <<>>]
    ELSE [kind |-> "other", basis |-> 0, bit |-> 0, data |-> raw.data]

\* PublicChannel.receive on the outcome of its recv(); type <<>> is falsy
receive(raw) ==
    IF raw.st # "data" THEN [kind |-> "none", type |-> <<>>, content |-> <<>>]
    ELSE IF ":" \in Range(raw.data)
    THEN LET sp == Split1(raw.data, ":")
         IN  [kind |-> "msg", type |-> sp[1], content |-> sp[2]]
    ELSE IF StartsWith(raw.data, <<"P", ":">>)
    THEN [kind |-> "photon_on_public", type |-> <<"PHOTON_ON_PUBLIC">>,
          content |-> raw.data]
    ELSE [kind |-> "none", type |-> <<>>, content |-> <<>>]

\* ------------------------------------------------- sender: pure computations
\* [int(b) for b in bob_bases_str] succeeds (no ValueError)
BasesParse(bob_bases_str) ==
    \A k \in 1..Len(bob_bases_str) : IsIntStr(<<bob_bases_str[k]>>)

bob_bases_list_of(bob_bases_str) ==
    [k \in 1..Len(bob_bases_str) |-> IntOfStr(<<bob_bases_str[k]>>)]

\* Bob's j-th basis compared with the basis of the j-th photon prepared,
\* as if no photon had been lost
SiftMatchesByOriginal(photons_sent_indices, sender_bases_sent, bob_bases_list) ==
    LET comparison_count == Min(Len(bob_bases_list), Len(photons_sent_indices))
        matches(j) ==
            /\ j \in DOMAIN sender_bases_sent
            /\ sender_bases_sent[j] = At(bob_bases_list, j)
    IN  SelectSeq(RangeSeq(comparison_count), matches)

\* step e: positions j of Bob's list whose basis equals the basis of the j-th
\* photon actually sent
SiftMatches(photons_sent_indices, sender_bases_sent, bob_bases_list) ==
    LET comparison_count == Min(Len(bob_bases_list), Len(photons_sent_indices))
        matches(j) ==
            /\ At(photons_sent_indices, j) \in DOMAIN sender_bases_sent
            /\ sender_bases_sent[At(photons_sent_indices, j)] = At(bob_bases_list, j)
    IN  SelectSeq(RangeSeq(comparison_count), matches)

\* the index tested for truth: relative index 0 is dropped
SiftedSenderKeySkipZero(match_indices, photons_sent_indices, sender_bits_sent) ==
    LET usable(rel_idx) ==
            /\ rel_idx # 0
            /\ rel_idx < Len(photons_sent_indices)
            /\ At(photons_sent_indices, rel_idx) \in DOMAIN sender_bits_sent
        kept == SelectSeq(match_indices, usable)
    IN  [k \in 1..Len(kept) |-> sender_bits_sent[At(photons_sent_indices, kept[k])]]

\* the sifted key read off the first sent photons instead of the matched ones
SiftedSenderKeyByPosition(match_indices, photons_sent_indices, sender_bits_sent) ==
    [k \in 1..Len(match_indices) |->
        sender_bits_sent[At(photons_sent_indices, k - 1)]]

\* step g: Alice's sifted key
SiftedSenderKey(match_indices, photons_sent_indices, sender_bits_sent) ==
    LET usable(rel_idx) ==
            /\ rel_idx < Len(photons_sent_indices)
            /\ At(photons_sent_indices, rel_idx) \in DOMAIN sender_bits_sent
        kept == SelectSeq(match_indices, usable)
    IN  [k \in 1..Len(kept) |-> sender_bits_sent[At(photons_sent_indices, kept[k])]]

\* half of the sifted key sampled whatever its length
CheckLenHalf(sifted_len, key_length) == Max(1, sifted_len \div 2)

\* a quarter of the sifted key sampled however short the desired key
CheckLenUncapped(sifted_len, key_length) ==
    LET first == Max(1, sifted_len \div 4)
    IN  IF sifted_len <= first THEN Max(1, sifted_len \div 2) ELSE first

\* step h, lines 131-132: size of the verification sample
CheckLen(sifted_len, key_length) ==
    LET first == Max(1, Min(sifted_len \div 4, key_length * 2))
    IN  IF sifted_len <= first THEN Max(1, sifted_len \div 2) ELSE first

\* ascending sequence of the members of a set of integers
RECURSIVE SortedSeq(_)
SortedSeq(set) ==
    IF set = {} THEN <<>>
    ELSE LET m == CHOOSE x \in set : \A y \in set : x <= y
         IN  <<m>> \o SortedSeq(set \ {m})

\* indices drawn with replacement, as sorted(random.choices(range(n), k=k))
SamplesWithRepeats(n, k) ==
    {c \in [1..k -> 0..(n - 1)] : \A a \in 1..k, b \in 1..k : a < b => c[a] <= c[b]}

\* sorted(random.sample(range(n), k)): every possible result
Samples(n, k) ==
    {SortedSeq(c) : c \in {d \in SUBSET (0..(n - 1)) : Cardinality(d) = k}}

\* the length test made one-sided: a payload shorter than the sample passes
CheckBitsLengthAtMost(receiver_check_bits_str, check_indices) ==
    TextLen(receiver_check_bits_str) <= Len(check_indices)

\* lines 147-148: as many check bits as sampled indices
CheckBitsLengthOk(receiver_check_bits_str, check_indices) ==
    TextLen(receiver_check_bits_str) = Len(check_indices)

\* step j: mismatches between Alice's sampled bits and Bob's check bits
Mismatches(sifted_sender_key, check_indices, receiver_check_bits_str) ==
    LET bad(k) ==
            IF check_indices[k] < Len(sifted_sender_key)
            THEN IF k <= Len(receiver_check_bits_str)
                    /\ IsIntStr(<<receiver_check_bits_str[k]>>)
                 THEN At(sifted_sender_key, check_indices[k])
                          # IntOfStr(<<receiver_check_bits_str[k]>>)
                 ELSE TRUE
            ELSE TRUE
    IN  Cardinality({k \in 1..Len(check_indices) : bad(k)})

\* the comparison made inclusive: a rate equal to the threshold is rejected
QberAtLeast(mismatches, check_count, qber_threshold) ==
    IF check_count = 0 THEN 0 >= qber_threshold[1]
    ELSE mismatches * qber_threshold[2] >= qber_threshold[1] * check_count

\* the comparison turned round: a rate below the threshold is rejected
QberBelow(mismatches, check_count, qber_threshold) ==
    IF check_count = 0 THEN 0 < qber_threshold[1]
    ELSE mismatches * qber_threshold[2] < qber_threshold[1] * check_count

\* step k: qber > args.qber_threshold, the threshold given as <<num, den>>
QberExceeds(mismatches, check_count, qber_threshold) ==
    IF check_count = 0 THEN 0 > qber_threshold[1]
    ELSE mismatches * qber_threshold[2] > qber_threshold[1] * check_count

\* the membership test turned round: the sampled positions are the ones kept
FinalKeyBitsSampled(sifted_key, check_indices) ==
    LET keep == SelectSeq(RangeSeq(Len(sifted_key)),
                          LAMBDA i : i \in Range(check_indices))
    IN  [k \in 1..Len(keep) |-> At(sifted_key, keep[k])]

\* step l: the sifted key without the sampled positions, in order
FinalKeyBits(sifted_key, check_indices) ==
    LET keep == SelectSeq(RangeSeq(Len(sifted_key)),
                          LAMBDA i : i \notin Range(check_indices))
    IN  [k \in 1..Len(keep) |-> At(sifted_key, keep[k])]

\* lst[-n:] for n >= 1: the last bits instead of the first
Suffix(lst, n) == SubSeq(lst, Max(1, Len(lst) - n + 1), Len(lst))

\* lst[:n]
Prefix(lst, n) == SubSeq(lst, 1, Min(n, Len(lst)))

\* the remainder falls short of everything but an empty request
KeyTooShortEmptyOnly(final_key_bits, key_length) == Len(final_key_bits) = 0

\* sender line 186, receiver line 175: too few bits left after verification
KeyTooShort(final_key_bits, key_length) == Len(final_key_bits) < key_length

\* ---------------------------------------------------------- seed derivation
NoSeed == [kind |-> "none", key |-> <<>>, r |-> 0]

\* what random.randint(0, (1 << 32) - 1) may return, two values standing for all
FallbackDraws == {0, 1}

\* the length test off by one: a key of exactly the minimum length falls back
derive_seed_from_key_le(key) ==
    IF Len(key) = 0 \/ Len(key) <= MinSeedKeyLen
    THEN {[kind |-> "random", key |-> <<>>, r |-> x] : x \in FallbackDraws}
    ELSE {[kind |-> "sha256", key |-> Concat(key), r |-> 0]}

\* utils.derive_seed_from_key: every value the call may return.  The digest
\* prefix is kept as a term over the hashed text: equal texts give equal
\* seeds.
derive_seed_from_key(key) ==
    IF Len(key) = 0 \/ Len(key) < MinSeedKeyLen
    THEN {[kind |-> "random", key |-> <<>>, r |-> x] : x \in FallbackDraws}
    ELSE {[kind |-> "sha256", key |-> Concat(key), r |-> 0]}

\* ------------------------------------------------------- hopping pattern
\* config.FREQUENCIES in tenths of a MHz, the first three
FREQUENCIES == <<881, 905, 923>>

\* the integer a seed is: the fallback draw, or the digest prefix of the key
\* text (equal texts give equal integers)
RECURSIVE BinaryValue(_)
BinaryValue(text) ==
    IF Len(text) = 0 THEN 0
    ELSE 2 * BinaryValue(SubSeq(text, 1, Len(text) - 1))
            + (IF text[Len(text)] = "1" THEN 1 ELSE 0)

SeedNumber(seed) ==
    IF seed.kind = "random" THEN seed.r ELSE 2 + BinaryValue(seed.key)

\* random.Random(seed): the state of a new generator is a function of seed
Seeded(seed) == SeedNumber(seed) % RngMod

\* one draw advances a generator (a full-period congruential step stands
\* for the Mersenne Twister)
RngNext(state) == (5 * state + 3) % RngMod

\* the state after n draws
RECURSIVE RngAfter(_, _)
RngAfter(state, n) == IF n <= 0 THEN state ELSE RngAfter(RngNext(state), n - 1)

\* [generator.choice(frequencies) for _ in range(n)]
RECURSIVE Choices(_, _, _)
Choices(state, n, frequencies) ==
    IF n <= 0 THEN <<>>
    ELSE <<frequencies[(RngNext(state) % Len(frequencies)) + 1]>>
            \o Choices(RngNext(state), n - 1, frequencies)

\* utils.generate_hopping_pattern, lines 48-59: the value returned
generate_hopping_pattern(seed, length, frequencies) ==
    IF Len(frequencies) = 0 THEN <<>>
    ELSE IF length <= 0 THEN <<>>
    ELSE Choices(Seeded(seed), length, frequencies)

\* the choices drawn from the global generator of the process, unseeded
call_generate_hopping_pattern_global(seed, length, frequencies, global) ==
    IF Len(frequencies) = 0 \/ length <= 0
    THEN [pattern |-> <<>>, global |-> global]
    ELSE [pattern |-> Choices(global, length, frequencies),
          global |-> RngAfter(global, length)]

\* a call of generate_hopping_pattern in a process whose global generator
\* is in state global: the value returned and the global generator after
\* the call (lines 56-57 draw from local_random only)
call_generate_hopping_pattern(seed, length, frequencies, global) ==
    [pattern |-> generate_hopping_pattern(seed, length, frequencies),
     global |-> global]

\* f"{freq:.1f}" of a frequency held in tenths
FreqText(freq) == StrOfInt(freq \div 10) \o <<".">> \o StrOfInt(freq % 10)

\* f"{char},{freq:.1f}"
PacketText(char, freq) == <<char, ",">> \o FreqText(freq)

\* float(text) succeeds on a decimal numeral: digits, or digits with a point
\* and digits on at least one side (otherwise ValueError)
FloatParses(text) ==
    LET parts == Split(text, ".")
    IN  \/ Len(parts) = 1 /\ IsNatStr(parts[1])
        \/ /\ Len(parts) = 2
           /\ Len(parts[1]) + Len(parts[2]) >= 1
           /\ \A k \in 1..2 : Len(parts[k]) = 0 \/ IsNatStr(parts[k])

\* float(text) in tenths, for a numeral with at most one decimal
FloatTenths(text) ==
    LET parts == Split(text, ".")
        whole == IF Len(parts[1]) = 0 THEN 0 ELSE NatOfStr(parts[1])
        tenth == IF Len(parts) = 1 \/ Len(parts[2]) = 0 THEN 0
                 ELSE DigitVal(parts[2][1])
    IN  10 * whole + tenth

\* ----------------------------------------------- receiver: pure computations
\* Python's lst[i] is defined (no IndexError); negative i counts from the end
PyIndexOk(lst, i) == (0 - Len(lst)) <= i /\ i < Len(lst)

PyIndex(lst, i) == IF i < 0 THEN lst[Len(lst) + i + 1] ELSE lst[i + 1]

\* [int(i) for i in text.split(',')] succeeds; the empty text is the empty list
IntListParses(text) ==
    Len(text) = 0 \/ \A k \in 1..Len(Split(text, ",")) : IsIntStr(Split(text, ",")[k])

IntListOf(text) ==
    IF Len(text) = 0 THEN <<>>
    ELSE [k \in 1..Len(Split(text, ",")) |-> IntOfStr(Split(text, ",")[k])]

\* int(content.split(':')[1]) succeeds
SyncParses(content) ==
    Len(Split(content, ":")) >= 2 /\ IsIntStr(Split(content, ":")[2])

SyncCount(content) == IntOfStr(Split(content, ":")[2])

\* step e: no index at or above the number of received photons
MatchIndicesOk(match_indices, received_photon_info) ==
    \A k \in 1..Len(match_indices) :
        /\ match_indices[k] < Len(received_photon_info)
        /\ PyIndexOk(received_photon_info, match_indices[k])

\* the sifted key without the bit of the last match
SiftedReceiverKeyShort(match_indices, received_photon_info) ==
    [k \in 1..(Len(match_indices) - 1) |->
        PyIndex(received_photon_info, match_indices[k]).measured_bit]

\* the sifted key read off the first received photons instead of the matched
SiftedReceiverKeyByPosition(match_indices, received_photon_info) ==
    [k \in 1..Len(match_indices) |-> received_photon_info[k].measured_bit]

SiftedReceiverKey(match_indices, received_photon_info) ==
    [k \in 1..Len(match_indices) |->
        PyIndex(received_photon_info, match_indices[k]).measured_bit]

\* only the indices that Python itself would refuse are rejected, so a
\* negative index counts from the end of the sifted key
CheckIndicesOkPython(indices, sifted_receiver_key) ==
    \A k \in 1..Len(indices) : PyIndexOk(sifted_receiver_key, indices[k])

\* step g: any(i < 0 or i >= len(sifted_receiver_key) ...) is false
CheckIndicesOk(indices, sifted_receiver_key) ==
    \A k \in 1..Len(indices) :
        ~(indices[k] < 0 \/ indices[k] >= Len(sifted_receiver_key))

\* the first bits of the sifted key disclosed instead of the requested ones
bits_to_send_str_of_first(indices, sifted_receiver_key) ==
    Concat(Prefix(sifted_receiver_key, Len(indices)))

\* the requested bits disclosed in the order of their positions in the key
bits_to_send_str_of_sorted(indices, sifted_receiver_key) ==
    Concat([k \in 1..Len(SortedSeq(Range(indices))) |->
        PyIndex(sifted_receiver_key, SortedSeq(Range(indices))[k])])

\* line 155: the bits at the requested indices, read as Python reads a list
bits_to_send_str_of(indices, sifted_receiver_key) ==
    Concat([k \in 1..Len(indices) |-> PyIndex(sifted_receiver_key, indices[k])])

\* ------------------------------------------------------------------- state
VARIABLES
    args,    \* the command-line values and the draws the random generator may make
    S,       \* locals and statistics of perform_qkd_sender_role
    R,       \* locals and statistics of perform_qkd_receiver_role
    s_out,   \* stream written by the sender (read by the receiver, or by Eve)
    r_out,   \* stream written by the receiver (read by the sender, or by Eve)
    e2r,     \* stream written by Eve on bob_conn
    e2s,     \* stream written by Eve on alice_conn
    closed,  \* which endpoints have closed their QKD socket
    E,       \* Eve: her three loops and the shared stop_event
    fh,      \* the frequency-hopping connection: both streams, who has closed
    rnd      \* a process calling utils.generate_hopping_pattern: the state of
             \* its global generator, the arguments and the results of its calls

vars == <<args, S, R, s_out, r_out, e2r, e2s, closed, E, fh, rnd>>

\* a key that is None
NoKey == <<-1>>

\* random.randint(0, 1)
BitDraws == {0, 1}

\* random.randint(0, 1) for the basis of photon k (0-based); the long
\* sessions follow only the draws in which every basis past the first
\* LongFreeBases comes out rectilinear
BasisDraws(k) == IF args.rng = "full" \/ k < LongFreeBases THEN {0, 1} ELSE {0}

\* the bases prepare_qubits may draw for n photons
BasisVectors(n) ==
    {b \in [1..n -> {0, 1}] : \A k \in 1..n : b[k] \in BasisDraws(k - 1)}

\* random.random(), in tenths: 0.0 and 0.5 stand for [0, 1)
UniformDraws == {0, 5}

\* the bits prepare_qubits may draw for n photons; the long sessions follow
\* only the draws whose bits past the first LongFreeBits come out 0
BitVectors(n) ==
    IF args.rng = "full" THEN [1..n -> BitDraws]
    ELSE {b \in [1..n -> BitDraws] : \A k \in 1..n : k > LongFreeBits => b[k] = 0}

\* args holds the values the role functions are called with: photon_count,
\* loss_rate, whether Eve is spliced in, and which draws are followed
\* args.loss_rate in tenths: 0.0, the default 0.10, and 1.0
LossRates == {0, 1, 10}

\* args.qber_threshold as <<numerator, denominator>>
Thresholds == {<<0, 1>>, <<1, 1>>}

SenderInit ==
    [pc |-> "prepare", sender_bits_all |-> <<>>, sender_bases_all |-> <<>>,
     i |-> 0, photons_sent_indices |-> <<>>, sender_bits_sent |-> <<>>,
     sender_bases_sent |-> <<>>, bob_bases_list |-> <<>>,
     match_indices_relative_to_bob |-> <<>>, sifted_sender_key |-> <<>>,
     check_indices_relative_sifted |-> <<>>, mismatches |-> 0,
     final_key_bits |-> <<>>, data_type |-> <<>>,
     receiver_check_bits_str |-> <<>>,
     status |-> "Not Started", exc |-> "", qkd_seed |-> NoSeed,
     final_key |-> NoKey, key_length |-> 0, qber_threshold |-> <<>>,
     fh_pc |-> "main", fh_status |-> "Not Started", message |-> <<>>,
     hopping_pattern |-> <<>>, fh_i |-> 0]

ReceiverInit ==
    [pc |-> "collect", received_photon_info |-> <<>>,
     photons_expected_from_sync |-> -1, data_type |-> <<>>, content |-> <<>>,
     match_indices_relative_to_bob |-> <<>>, sifted_receiver_key |-> <<>>,
     indices_to_check_relative_sifted |-> <<>>, final_key_bits |-> <<>>,
     status |-> "Not Started", exc |-> "", qkd_seed |-> NoSeed,
     final_key |-> NoKey, key_length |-> 0,
     fh_pc |-> "main", fh_status |-> "Not Started", message |-> <<>>,
     hopping_pattern |-> <<>>, fh_i |-> 0, received_message |-> <<>>,
     chars_received |-> 0, freq_mismatches |-> 0, malformed_packets |-> 0]

EveInit == [intercept |-> "run", relay_ab |-> "run", relay_ba |-> "run",
            stop_event |-> FALSE]

\* a role whose program is not run: its socket end belongs to another program
Absent(st) == [st EXCEPT !.pc = "absent"]

\* Eve's loops when eve.py is not run
EveAbsent == [intercept |-> "exited", relay_ab |-> "exited",
              relay_ba |-> "exited", stop_event |-> TRUE]

\* args.key_length and args.qber_threshold are inputs of a run; a role's
\* record holds each from the step that first acts on it (0 or <<>> before)
KeyLengths(read) ==
    IF read # 0 THEN {read}
    ELSE IF args.rng \in {"full", "sample"} THEN {1, MaxKeyLength}
    ELSE {MinSeedKeyLen - 1, MinSeedKeyLen}

\* the frequency-hopping connection as accepted (qkd_sender.py 292,
\* qkd_receiver.py 318): nothing written, both ends open
FhInit == [s2r |-> <<>>, r2s |-> <<>>, s_closed |-> FALSE, r_closed |-> FALSE]

\* no call of generate_hopping_pattern is followed
RndIdle == [pc |-> "idle"]

\* both roles and Eve's loops at their first line, nothing written yet
Start ==
    /\ E = EveInit
    /\ S = SenderInit
    /\ R = ReceiverInit
    /\ s_out = <<>> /\ r_out = <<>> /\ e2r = <<>> /\ e2s = <<>>
    /\ closed = [s |-> FALSE, r |-> FALSE, e |-> FALSE]
    /\ fh = FhInit
    /\ rnd = RndIdle

\* sender connected to receiver (qkd_sender.py lines 290-291,
\* qkd_receiver.py lines 313-320)
Init ==
    /\ args \in [photon_count : 1..MaxPhotons, loss_rate : LossRates,
                 eve : {FALSE}, rng : {"full"}]
    /\ Start

\* sessions of at most EvePhotons photons, with Eve between the two roles
\* (eve.py lines 188-201) or without her
InitEve ==
    /\ args \in [photon_count : 1..EvePhotons, loss_rate : LossRates,
                 eve : BOOLEAN, rng : {"full"}]
    /\ Start

\* long sessions: enough photons for a key of MinSeedKeyLen bits, no loss
InitLong ==
    /\ args = [photon_count |-> MinSeedKeyLen + LongExtra, loss_rate |-> 0,
               eve |-> FALSE, rng |-> "narrow"]
    /\ Start

\* one role run against whatever program holds the other end of its socket:
\* the sender with up to PeerPhotons photons, or the receiver; e2s and e2r
\* are the streams written by that program
InitPeer ==
    /\ args \in [photon_count : 1..PeerPhotons, loss_rate : {0, 1},
                 eve : {TRUE}, rng : {"full"}]
    /\ E = EveAbsent
    /\ \/ S = SenderInit /\ R = Absent(ReceiverInit)
       \/ S = Absent(SenderInit) /\ R = ReceiverInit
    /\ s_out = <<>> /\ r_out = <<>> /\ e2r = <<>> /\ e2s = <<>>
    /\ closed = [s |-> FALSE, r |-> FALSE, e |-> FALSE]
    /\ fh = FhInit
    /\ rnd = RndIdle

\* the sender alone with SamplePhotons photons and no loss, against a peer
\* that reports rectilinear bases: sifted keys long enough for every branch
\* of the sample size
InitSample ==
    /\ args = [photon_count |-> SamplePhotons, loss_rate |-> 0,
               eve |-> TRUE, rng |-> "sample"]
    /\ E = EveAbsent
    /\ S = SenderInit /\ R = Absent(ReceiverInit)
    /\ s_out = <<>> /\ r_out = <<>> /\ e2r = <<>> /\ e2s = <<>>
    /\ closed = [s |-> FALSE, r |-> FALSE, e |-> FALSE]
    /\ fh = FhInit
    /\ rnd = RndIdle

\* whole runs of at most SessionPhotons photons, every photon sent or
\* every photon lost
InitSession ==
    /\ args \in [photon_count : 1..SessionPhotons, loss_rate : {0, 10},
                 eve : {FALSE}, rng : {"full"}]
    /\ Start

\* seeds handed to generate_hopping_pattern: fallback draws and digests of
\* two keys of MinSeedKeyLen bits
PatternSeeds ==
    {[kind |-> "random", key |-> <<>>, r |-> x] : x \in FallbackDraws}
    \cup {[kind |-> "sha256", key |-> [k \in 1..MinSeedKeyLen |-> "0"], r |-> 0],
          [kind |-> "sha256",
           key |-> [k \in 1..MinSeedKeyLen |->
                       IF k = MinSeedKeyLen THEN "1" ELSE "0"],
           r |-> 0]}

\* vocabularies handed to generate_hopping_pattern
PatternVocabularies == {<<>>, <<FREQUENCIES[1]>>, FREQUENCIES}

\* a process about to call generate_hopping_pattern twice with the same
\* arguments, its global generator in any state
InitPattern ==
    /\ args = [photon_count |-> 1, loss_rate |-> 0, eve |-> FALSE, rng |-> "full"]
    /\ E = EveInit
    /\ S = SenderInit /\ R = ReceiverInit
    /\ s_out = <<>> /\ r_out = <<>> /\ e2r = <<>> /\ e2s = <<>>
    /\ closed = [s |-> FALSE, r |-> FALSE, e |-> FALSE]
    /\ fh = FhInit
    /\ \E seed \in PatternSeeds, length \in (0 - 1)..MaxMessage,
          frequencies \in PatternVocabularies, global \in 0..(RngMod - 1) :
          rnd = [pc |-> "call", seed |-> seed, length |-> length,
                 frequencies |-> frequencies, global |-> global,
                 started |-> global, draws |-> 0,
                 first |-> <<>>, second |-> <<>>]

\* ----------------------------------------------------------------- wiring
\* what the sender's socket reads, and whether its writer has closed
SenderIn == IF args.eve THEN e2s ELSE r_out

SenderInClosed == IF args.eve THEN closed.e ELSE closed.r

SetSenderIn(rest) ==
    IF args.eve THEN e2s' = rest /\ UNCHANGED r_out
    ELSE r_out' = rest /\ UNCHANGED e2s

ReceiverIn == IF args.eve THEN e2r ELSE s_out

ReceiverInClosed == IF args.eve THEN closed.e ELSE closed.s

SetReceiverIn(rest) ==
    IF args.eve THEN e2r' = rest /\ UNCHANGED s_out
    ELSE s_out' = rest /\ UNCHANGED e2r

\* can a role or a loop of Eve take a step that is not a timeout
SenderRuns ==
    \/ S.pc \in {"prepare", "transmit"}
    \/ S.pc \in {"await_bases", "await_check_bits"} /\ Len(SenderIn) > 0

ReceiverRuns ==
    /\ R.pc \in {"collect", "await_sync", "await_matches",
                 "await_check_indices", "await_confirm"}
    /\ Len(ReceiverIn) > 0

EveRuns ==
    /\ args.eve
    /\ ~E.stop_event
    /\ \/ Len(s_out) > 0 /\ (E.intercept = "run" \/ E.relay_ab = "run")
       \/ Len(r_out) > 0 /\ E.relay_ba = "run"

Quiet == ~SenderRuns /\ ~ReceiverRuns /\ ~EveRuns

\* sendall() may raise socket.error only once the other end has closed
WriteFails(peerClosed) == IF peerClosed THEN {FALSE, TRUE} ELSE {FALSE}

\* ------------------------------------------------------------------ sender
\* the handler returning without recording the failure in stats
SenderFailedSilently(st, exc) == [st EXCEPT !.pc = "done", !.exc = exc]

\* the except clause of lines 199-205: status, best-effort ABORT, no key
SenderFailed(st, exc) ==
    [st EXCEPT !.pc = "done", !.status = "Error", !.exc = exc]

SenderAbortText == PublicText("ABORT", <<"Sender Error">>)

\* one step of the sender: new locals, texts written, what is left to read.
\* When the role returns, __main__ (lines 333-335) closes the connection.
SenderStep(st, sends, rest) ==
    /\ S' = st
    /\ s_out' = s_out \o sends
    /\ SetSenderIn(rest)
    /\ closed' = IF st.pc = "done" THEN [closed EXCEPT !.s = TRUE] ELSE closed
    /\ UNCHANGED <<args, R, e2r, E, fh, rnd>>

\* prepare_qubits, lines 32-37 and 52
s_prepare ==
    /\ S.pc = "prepare"
    /\ \E bits \in BitVectors(args.photon_count),
          bases \in BasisVectors(args.photon_count) :
          SenderStep([S EXCEPT !.pc = "transmit", !.sender_bits_all = bits,
                               !.sender_bases_all = bases],
                     <<>>, SenderIn)

\* one iteration of the loop of lines 60-66
s_transmit ==
    /\ S.pc = "transmit"
    /\ S.i < args.photon_count
    /\ \E u \in UniformDraws, fails \in WriteFails(SenderInClosed) :
          IF u >= args.loss_rate
          THEN IF fails
               THEN SenderStep(SenderFailed(S, "socket.error"),
                               <<SenderAbortText>>, SenderIn)
               ELSE SenderStep(
                      [S EXCEPT !.i = S.i + 1,
                                !.photons_sent_indices = Append(@, S.i),
                                !.sender_bits_sent =
                                    (S.i :> At(S.sender_bits_all, S.i)) @@ @,
                                !.sender_bases_sent =
                                    (S.i :> At(S.sender_bases_all, S.i)) @@ @],
                      <<PhotonText(At(S.sender_bases_all, S.i),
                                   At(S.sender_bits_all, S.i))>>,
                      SenderIn)
          ELSE /\ ~fails
               /\ SenderStep([S EXCEPT !.i = S.i + 1], <<>>, SenderIn)

\* lines 68-73: SYNC with the number of photons actually sent
s_sync ==
    /\ S.pc = "transmit"
    /\ S.i = args.photon_count
    /\ \E fails \in WriteFails(SenderInClosed) :
          IF fails
          THEN SenderStep(SenderFailed(S, "socket.error"),
                          <<SenderAbortText>>, SenderIn)
          ELSE SenderStep([S EXCEPT !.pc = "await_bases"],
                          <<PublicText("SYNC", <<"PHOTONS_SENT", ":">>
                                \o StrOfInt(Len(S.photons_sent_indices)))>>,
                          SenderIn)

\* lines 75-139: BOB_BASES arrives; sift, send the matches, build the sifted
\* key, choose and send the verification sample
s_recv_bases ==
    /\ S.pc = "await_bases"
    /\ \E raw \in RecvOutcomes(SenderIn, SenderInClosed, Quiet),
          fails \in WriteFails(SenderInClosed),
          key_length \in KeyLengths(S.key_length) :
        LET m == receive(raw)
            typed == [S EXCEPT !.data_type = m.type]
            bob == bob_bases_list_of(m.content)
            match == SiftMatches(S.photons_sent_indices, S.sender_bases_sent, bob)
            key == SiftedSenderKey(match, S.photons_sent_indices, S.sender_bits_sent)
            sifted == [typed EXCEPT !.bob_bases_list = bob,
                                !.match_indices_relative_to_bob = match,
                                !.sifted_sender_key = key,
                                !.key_length = key_length]
            matchText == PublicText("MATCH_INDICES_REL", CommaJoin(match))
            check_len == CheckLen(Len(key), key_length)
        IN  IF m.type = <<>>
            THEN /\ ~fails
                 /\ SenderStep(SenderFailed(typed, "ConnectionAbortedError"),
                               <<SenderAbortText>>, raw.rest)
            ELSE IF m.type = <<"ABORT">>
            THEN /\ ~fails
                 /\ SenderStep(SenderFailed(typed, "ValueError"),
                               <<SenderAbortText>>, raw.rest)
            ELSE IF m.type # <<"BOB_BASES">>
            THEN /\ ~fails
                 /\ SenderStep(SenderFailed(typed, "TypeError"),
                               <<SenderAbortText>>, raw.rest)
            ELSE IF ~BasesParse(m.content)
            THEN /\ ~fails
                 /\ SenderStep(SenderFailed(typed, "ValueError"),
                               <<SenderAbortText>>, raw.rest)
            ELSE IF fails
            THEN SenderStep(SenderFailed([typed EXCEPT !.bob_bases_list = bob,
                                !.match_indices_relative_to_bob = match],
                                "socket.error"),
                            <<SenderAbortText>>, raw.rest)
            ELSE IF Len(key) = 0
            THEN SenderStep(SenderFailed(sifted, "ValueError"),
                            <<matchText, SenderAbortText>>, raw.rest)
            ELSE IF Len(key) <= check_len
            THEN SenderStep(SenderFailed(sifted, "ValueError"),
                            <<matchText, SenderAbortText>>, raw.rest)
            ELSE \E sample \in Samples(Len(key), check_len) :
                    SenderStep(
                      [sifted EXCEPT !.pc = "await_check_bits",
                                     !.check_indices_relative_sifted = sample],
                      <<matchText,
                        PublicText("CHECK_INDICES_REL_SIFT", CommaJoin(sample))>>,
                      raw.rest)

\* the short key raised as an error: the handler adds its ABORT
TextsOnKeyTooShortRaised ==
    <<PublicText("CONFIRM_KEY", <<"OK">>), SenderAbortText>>

\* lines 179-189: CONFIRM_KEY is sent before the length of the key is
\* tested, and a key too short is a return, not an exception
TextsOnKeyTooShort == <<PublicText("CONFIRM_KEY", <<"OK">>)>>

\* lines 141-197: CHECK_BITS arrives; count mismatches, decide, build the key
s_recv_check_bits ==
    /\ S.pc = "await_check_bits"
    /\ \E raw \in RecvOutcomes(SenderIn, SenderInClosed, Quiet),
          fails \in WriteFails(SenderInClosed),
          qber_threshold \in Thresholds :
        LET m == receive(raw)
            typed == [S EXCEPT !.data_type = m.type,
                               !.receiver_check_bits_str = m.content]
            mismatches == Mismatches(S.sifted_sender_key,
                                     S.check_indices_relative_sifted, m.content)
            counted == [typed EXCEPT !.mismatches = mismatches,
                                 !.qber_threshold = qber_threshold]
            final_key_bits == FinalKeyBits(S.sifted_sender_key,
                                           S.check_indices_relative_sifted)
            final == Prefix(final_key_bits, S.key_length)
        IN  IF m.type = <<>>
            THEN /\ ~fails
                 /\ SenderStep(SenderFailed(typed, "ConnectionAbortedError"),
                               <<SenderAbortText>>, raw.rest)
            ELSE IF m.type = <<"ABORT">>
            THEN /\ ~fails
                 /\ SenderStep(SenderFailed(typed, "ValueError"),
                               <<SenderAbortText>>, raw.rest)
            ELSE IF m.type # <<"CHECK_BITS">>
            THEN /\ ~fails
                 /\ SenderStep(SenderFailed(typed, "TypeError"),
                               <<SenderAbortText>>, raw.rest)
            ELSE IF ~CheckBitsLengthOk(m.content, S.check_indices_relative_sifted)
            THEN /\ ~fails
                 /\ SenderStep(SenderFailed(typed, "ValueError"),
                               <<SenderAbortText>>, raw.rest)
            ELSE IF fails
            THEN SenderStep(SenderFailed(counted, "socket.error"),
                            <<SenderAbortText>>, raw.rest)
            ELSE IF QberExceeds(mismatches,
                                Len(S.check_indices_relative_sifted),
                                qber_threshold)
            THEN SenderStep([counted EXCEPT !.pc = "done", !.status = "QBER Fail"],
                            <<PublicText("ABORT", <<"QBER_HIGH">>)>>, raw.rest)
            ELSE IF KeyTooShort(final_key_bits, S.key_length)
            THEN SenderStep([counted EXCEPT !.pc = "done",
                                            !.final_key_bits = final_key_bits,
                                            !.status = "Key Too Short"],
                            TextsOnKeyTooShort, raw.rest)
            ELSE \E seed \in derive_seed_from_key(final) :
                    SenderStep([counted EXCEPT !.pc = "done", !.status = "Success",
                                               !.final_key_bits = final_key_bits,
                                               !.final_key = final,
                                               !.qkd_seed = seed],
                               <<PublicText("CONFIRM_KEY", <<"OK">>)>>, raw.rest)

\* ---------------------------------------------------------------- receiver
\* the except clause of lines 190-196
ReceiverFailed(st, exc) ==
    [st EXCEPT !.pc = "done", !.status = "Error", !.exc = exc]

\* the handler returning without any ABORT
ReceiverAbortTextsNone(data_type) == <<>>

\* the handler sending its ABORT whatever was received last
ReceiverAbortTextsAlways(data_type) ==
    <<PublicText("ABORT", <<"Receiver Error">>)>>

\* the best-effort ABORT of lines 193-195: none when the last message type
\* received was ABORT
ReceiverAbortTexts(data_type) ==
    IF data_type # <<"ABORT">>
    THEN <<PublicText("ABORT", <<"Receiver Error">>)>>
    ELSE <<>>

\* one step of the receiver; when the role returns, __main__ (lines 358-360)
\* closes the connection
ReceiverStep(st, sends, rest) ==
    /\ R' = st
    /\ r_out' = r_out \o sends
    /\ SetReceiverIn(rest)
    /\ closed' = IF st.pc = "done" THEN [closed EXCEPT !.r = TRUE] ELSE closed
    /\ UNCHANGED <<args, S, e2s, E, fh, rnd>>

\* fail with the locals st (st.data_type being the last type received)
ReceiverFail(st, exc, rest) ==
    ReceiverStep(ReceiverFailed(st, exc), ReceiverAbortTexts(st.data_type), rest)

\* lines 99-102: BOB_BASES, the bases of the photons received, in order
SendBases(st, rest, fails) ==
    IF fails
    THEN ReceiverFail(st, "socket.error", rest)
    ELSE ReceiverStep(
           [st EXCEPT !.pc = "await_matches"],
           <<PublicText("BOB_BASES",
               Concat([k \in 1..Len(st.received_photon_info) |->
                          st.received_photon_info[k].bob_basis]))>>,
           rest)

\* the bases sent as soon as photons are stored, SYNC received or not
AfterCollectEager(st, rest, fails) ==
    IF Len(st.received_photon_info) = 0
    THEN ~fails /\ ReceiverFail(st, "ValueError", rest)
    ELSE SendBases(st, rest, fails)

\* the collection left without the test for an empty record
AfterCollectNoTest(st, rest, fails) ==
    IF st.photons_expected_from_sync = -1
    THEN ~fails /\ ReceiverStep([st EXCEPT !.pc = "await_sync"], <<>>, rest)
    ELSE SendBases(st, rest, fails)

\* lines 79-102: after the collection loop has been left
AfterCollect(st, rest, fails) ==
    IF Len(st.received_photon_info) = 0
    THEN ~fails /\ ReceiverFail(st, "ValueError", rest)
    ELSE IF st.photons_expected_from_sync = -1
    THEN ~fails /\ ReceiverStep([st EXCEPT !.pc = "await_sync"], <<>>, rest)
    ELSE SendBases(st, rest, fails)

\* one iteration of the loop of lines 49-77, with lines 79-102 when it breaks
r_recv_photon ==
    /\ R.pc = "collect"
    /\ \E raw \in RecvOutcomes(ReceiverIn, ReceiverInClosed, Quiet),
          fails \in WriteFails(ReceiverInClosed) :
        LET result == receive_photon(raw)
            sp == Split1(result.data, ":")
            typed == [R EXCEPT !.data_type = sp[1]]
        IN  IF result.kind = "none"
            THEN AfterCollect(R, raw.rest, fails)
            ELSE IF result.kind = "other"
            THEN IF ":" \in Range(result.data)
                 THEN IF sp[1] = <<"SYNC">> /\ StartsWith(sp[2], <<"PHOTONS_SENT">>)
                      THEN IF SyncParses(sp[2])
                           THEN AfterCollect(
                                  [typed EXCEPT !.photons_expected_from_sync =
                                                    SyncCount(sp[2])],
                                  raw.rest, fails)
                           ELSE ~fails /\ ReceiverFail(typed, "ValueError", raw.rest)
                      ELSE IF sp[1] = <<"ABORT">>
                      THEN ~fails /\ ReceiverFail(typed, "ValueError", raw.rest)
                      ELSE AfterCollect(typed, raw.rest, fails)
                 ELSE AfterCollect(R, raw.rest, fails)
            ELSE /\ ~fails
                 /\ \E bob_basis \in BasisDraws(Len(R.received_photon_info)),
                       drawn \in BitDraws :
                      LET measured_bit == IF bob_basis = result.basis
                                          THEN result.bit ELSE drawn
                      IN  /\ (bob_basis = result.basis => drawn = 0)
                          /\ ReceiverStep(
                               [R EXCEPT !.received_photon_info =
                                   Append(@, [bob_basis |-> bob_basis,
                                              measured_bit |-> measured_bit])],
                               <<>>, raw.rest)

\* lines 84-102: SYNC awaited on the public channel
r_recv_sync ==
    /\ R.pc = "await_sync"
    /\ \E raw \in RecvOutcomes(ReceiverIn, ReceiverInClosed, Quiet),
          fails \in WriteFails(ReceiverInClosed) :
        LET m == receive(raw)
            typed == [R EXCEPT !.data_type = m.type]
        IN  IF m.type = <<>>
            THEN ~fails /\ ReceiverFail(typed, "ConnectionAbortedError", raw.rest)
            ELSE IF m.type = <<"ABORT">>
            THEN ~fails /\ ReceiverFail(typed, "ValueError", raw.rest)
            ELSE IF m.type # <<"SYNC">> \/ ~StartsWith(m.content, <<"PHOTONS_SENT">>)
            THEN ~fails /\ ReceiverFail(typed, "TypeError", raw.rest)
            ELSE IF ~SyncParses(m.content)
            THEN ~fails /\ ReceiverFail(typed, "ValueError", raw.rest)
            ELSE SendBases([typed EXCEPT !.photons_expected_from_sync =
                                             SyncCount(m.content)],
                           raw.rest, fails)

\* lines 104-135: MATCH_INDICES_REL arrives; build the sifted key
r_recv_matches ==
    /\ R.pc = "await_matches"
    /\ \E raw \in RecvOutcomes(ReceiverIn, ReceiverInClosed, Quiet) :
        LET m == receive(raw)
            typed == [R EXCEPT !.data_type = m.type]
            match == IntListOf(m.content)
            listed == [typed EXCEPT !.match_indices_relative_to_bob = match]
            key == SiftedReceiverKey(match, R.received_photon_info)
        IN  IF m.type = <<>>
            THEN ReceiverFail(typed, "ConnectionAbortedError", raw.rest)
            ELSE IF m.type = <<"ABORT">>
            THEN ReceiverFail(typed, "ValueError", raw.rest)
            ELSE IF m.type # <<"MATCH_INDICES_REL">>
            THEN ReceiverFail(typed, "TypeError", raw.rest)
            ELSE IF ~IntListParses(m.content)
            THEN ReceiverFail(typed, "ValueError", raw.rest)
            ELSE IF ~MatchIndicesOk(match, R.received_photon_info)
            THEN ReceiverFail(listed, "IndexError", raw.rest)
            ELSE IF Len(key) = 0
            THEN ReceiverFail([listed EXCEPT !.sifted_receiver_key = key],
                              "ValueError", raw.rest)
            ELSE ReceiverStep([listed EXCEPT !.pc = "await_check_indices",
                                             !.sifted_receiver_key = key],
                              <<>>, raw.rest)

\* lines 137-157: CHECK_INDICES_REL_SIFT arrives; disclose the sampled bits
r_recv_check_indices ==
    /\ R.pc = "await_check_indices"
    /\ \E raw \in RecvOutcomes(ReceiverIn, ReceiverInClosed, Quiet),
          fails \in WriteFails(ReceiverInClosed) :
        LET m == receive(raw)
            typed == [R EXCEPT !.data_type = m.type]
            indices == IntListOf(m.content)
            listed == [typed EXCEPT !.indices_to_check_relative_sifted = indices]
        IN  IF m.type = <<>>
            THEN ~fails /\ ReceiverFail(typed, "ConnectionAbortedError", raw.rest)
            ELSE IF m.type = <<"ABORT">>
            THEN ~fails /\ ReceiverFail(typed, "ValueError", raw.rest)
            ELSE IF m.type # <<"CHECK_INDICES_REL_SIFT">>
            THEN ~fails /\ ReceiverFail(typed, "TypeError", raw.rest)
            ELSE IF ~IntListParses(m.content)
            THEN ~fails /\ ReceiverFail(typed, "ValueError", raw.rest)
            ELSE IF ~CheckIndicesOk(indices, R.sifted_receiver_key)
            THEN ~fails /\ ReceiverFail(listed, "IndexError", raw.rest)
            ELSE IF fails
            THEN ReceiverFail(listed, "socket.error", raw.rest)
            ELSE ReceiverStep(
                   [listed EXCEPT !.pc = "await_confirm"],
                   <<PublicText("CHECK_BITS",
                        bits_to_send_str_of(indices, R.sifted_receiver_key))>>,
                   raw.rest)

\* an ABORT in place of the confirmation taken for the confirmation
AbortedByPeerTakenAsConfirm(st, content) ==
    [st EXCEPT !.pc = "done", !.status = "Success"]

\* lines 164-167: the status names the peer's reason, the text after ABORT:
AbortedByPeer(st, content) ==
    [st EXCEPT !.pc = "done", !.status = "Aborted", !.content = content]

\* lines 159-188: CONFIRM_KEY or ABORT arrives
r_recv_confirm ==
    /\ R.pc = "await_confirm"
    /\ \E raw \in RecvOutcomes(ReceiverIn, ReceiverInClosed, Quiet),
          key_length \in KeyLengths(R.key_length) :
        LET m == receive(raw)
            typed == [R EXCEPT !.data_type = m.type]
            confirmed == [typed EXCEPT !.key_length = key_length]
            final_key_bits == FinalKeyBits(R.sifted_receiver_key,
                                           R.indices_to_check_relative_sifted)
            final == Prefix(final_key_bits, key_length)
        IN  IF m.type = <<>>
            THEN ReceiverFail(typed, "ConnectionAbortedError", raw.rest)
            ELSE IF m.type = <<"ABORT">>
            THEN ReceiverStep(AbortedByPeer(typed, m.content), <<>>, raw.rest)
            ELSE IF m.type = <<"CONFIRM_KEY">>
            THEN IF KeyTooShort(final_key_bits, key_length)
                 THEN ReceiverStep([confirmed EXCEPT !.pc = "done",
                                                     !.final_key_bits = final_key_bits,
                                                     !.status = "Key Too Short"],
                                   <<>>, raw.rest)
                 ELSE \E seed \in derive_seed_from_key(final) :
                        ReceiverStep([confirmed EXCEPT !.pc = "done",
                                                   !.status = "Success",
                                                   !.final_key_bits = final_key_bits,
                                                   !.final_key = final,
                                                   !.qkd_seed = seed],
                                     <<>>, raw.rest)
            ELSE ReceiverFail(typed, "TypeError", raw.rest)

\* --------------------------------------------------------------------- Eve
\* One iteration of a loop of eve.py is one step: the test of stop_event,
\* the recv() and what is done with the data.  An iteration whose recv()
\* times out changes nothing and is left out.  When the interception loop
\* is left, perform_eve_mitm returns and __main__ (lines 213-220) closes
\* both connections.
EveStep(st, from_s, from_r, to_r, to_s) ==
    /\ E' = st
    /\ s_out' = from_s
    /\ r_out' = from_r
    /\ e2r' = e2r \o to_r
    /\ e2s' = e2s \o to_s
    /\ closed' = IF st.intercept = "exited" THEN [closed EXCEPT !.e = TRUE]
                  ELSE closed
    /\ UNCHANGED <<args, S, R, fh, rnd>>

\* the texts of the first k queued frames, one by one and glued
Chunks(stream) ==
    {[frames |-> SubSeq(stream, 1, k), data |-> Flatten(SubSeq(stream, 1, k)),
      rest |-> SubSeq(stream, k + 1, Len(stream))] : k \in 1..Len(stream)}

\* lines 119-121: the photon of an intercepted text, or a ValueError
InterceptParses(decoded_data) ==
    LET parts == Split(Split1(decoded_data, ":")[2], ",")
    IN  Len(parts) = 2 /\ IsIntStr(parts[1]) /\ IsIntStr(parts[2])

InterceptBasis(decoded_data) ==
    IntOfStr(Split(Split1(decoded_data, ":")[2], ",")[1])

InterceptBit(decoded_data) ==
    IntOfStr(Split(Split1(decoded_data, ":")[2], ",")[2])

\* the running loops whose recv() is on alice_conn (lines 44 and 97) and on
\* bob_conn (line 44)
AliceConnReaders ==
    {loop \in {"intercept", "relay_ab"} : E[loop] = "run"}

BobConnReaders == {loop \in {"relay_ba"} : E[loop] = "run"}

\* perform_eve_mitm, lines 90-149: one iteration of the interception loop
e_intercept ==
    /\ args.eve
    /\ E.intercept = "run"
    /\ ~E.stop_event
    /\ \/ \E c \in Chunks(s_out), fails \in WriteFails(closed.r) :
            IF StartsWith(c.data, <<"P", ":">>) /\ InterceptParses(c.data)
            THEN \E eve_basis \in BasisDraws(0), drawn \in BitDraws :
                   LET original_basis == InterceptBasis(c.data)
                       eve_measured_bit == IF eve_basis = original_basis
                                           THEN InterceptBit(c.data) ELSE drawn
                   IN  /\ (eve_basis = original_basis => drawn = 0)
                       /\ EveStep(E, c.rest, r_out,
                                  IF fails THEN <<>>
                                  ELSE <<PhotonText(eve_basis, eve_measured_bit)>>,
                                  <<>>)
            ELSE ~fails /\ EveStep(E, c.rest, r_out, <<>>, <<>>)
       \/ /\ Len(s_out) = 0
          /\ closed.s
          /\ EveStep([E EXCEPT !.intercept = "exited", !.stop_event = TRUE],
                     s_out, r_out, <<>>, <<>>)

\* relay_messages(alice_conn, bob_conn, ...), lines 42-65: one iteration
e_relay_ab ==
    /\ args.eve
    /\ E.relay_ab = "run"
    /\ ~E.stop_event
    /\ \/ \E c \in Chunks(s_out), fails \in WriteFails(closed.r) :
            IF fails
            THEN EveStep([E EXCEPT !.relay_ab = "exited", !.stop_event = TRUE],
                         c.rest, r_out, <<>>, <<>>)
            ELSE EveStep(E, c.rest, r_out, c.frames, <<>>)
       \/ /\ Len(s_out) = 0
          /\ closed.s
          /\ EveStep([E EXCEPT !.relay_ab = "exited", !.stop_event = TRUE],
                     s_out, r_out, <<>>, <<>>)

\* relay_messages(bob_conn, alice_conn, ...), lines 42-65: one iteration
e_relay_ba ==
    /\ args.eve
    /\ E.relay_ba = "run"
    /\ ~E.stop_event
    /\ \/ \E c \in Chunks(r_out), fails \in WriteFails(closed.s) :
            IF fails
            THEN EveStep([E EXCEPT !.relay_ba = "exited", !.stop_event = TRUE],
                         s_out, c.rest, <<>>, <<>>)
            ELSE EveStep(E, s_out, c.rest, <<>>, c.frames)
       \/ /\ Len(r_out) = 0
          /\ closed.r
          /\ EveStep([E EXCEPT !.relay_ba = "exited", !.stop_event = TRUE],
                     s_out, r_out, <<>>, <<>>)

\* only the relay threads test stop_event; the interception loop never does
e_stop_relays_only ==
    /\ args.eve
    /\ E.stop_event
    /\ \/ E.relay_ab = "run" /\ EveStep([E EXCEPT !.relay_ab = "exited"],
                                        s_out, r_out, <<>>, <<>>)
       \/ E.relay_ba = "run" /\ EveStep([E EXCEPT !.relay_ba = "exited"],
                                        s_out, r_out, <<>>, <<>>)

\* a loop finds stop_event set at its test and leaves (lines 42, 65 and 90)
e_stop ==
    /\ args.eve
    /\ E.stop_event
    /\ \/ E.intercept = "run" /\ EveStep([E EXCEPT !.intercept = "exited"],
                                         s_out, r_out, <<>>, <<>>)
       \/ E.relay_ab = "run" /\ EveStep([E EXCEPT !.relay_ab = "exited"],
                                        s_out, r_out, <<>>, <<>>)
       \/ E.relay_ba = "run" /\ EveStep([E EXCEPT !.relay_ba = "exited"],
                                        s_out, r_out, <<>>, <<>>)

\* ----------------------------------------------------- the peer of one role
\* What sock.recv() of a role can return is whatever the program at the
\* other end has written.  The peer writes one text at a time, from the
\* frames of the protocol with small payloads, well formed or not, and only
\* while the role waits with nothing left to read.
PeerBitTexts == UNION {[1..n -> {"0", "1"}] : n \in 0..PeerPayload}

PeerIndexTexts ==
    {CommaJoin(xs) : xs \in {<<>>, <<0>>, <<1>>, <<0, 1>>, <<1, 0>>, <<-1>>,
                             <<PeerPayload>>}}

PeerPhotonTexts == {PhotonText(basis, bit) : basis \in {0, 1}, bit \in {0, 1}}

PeerPublicTexts ==
    {PublicText("SYNC", <<"PHOTONS_SENT", ":">> \o StrOfInt(n)) : n \in 0..PeerPayload}
    \cup {PublicText("BOB_BASES", t) : t \in PeerBitTexts}
    \cup {PublicText("CHECK_BITS", t) : t \in PeerBitTexts}
    \cup {PublicText("MATCH_INDICES_REL", t) : t \in PeerIndexTexts}
    \cup {PublicText("CHECK_INDICES_REL_SIFT", t) : t \in PeerIndexTexts}
    \cup {PublicText("CONFIRM_KEY", <<"OK">>), PublicText("ABORT", <<"QBER_HIGH">>),
          <<"P", ":", "0">>, <<"OK">>}

\* the peer of the sender writes a text (read at qkd_sender.py 77 and 143)
p_send_sender ==
    /\ S.pc \in {"await_bases", "await_check_bits"}
    /\ Len(e2s) = 0
    /\ ~closed.e
    /\ \E t \in PeerPublicTexts \cup PeerPhotonTexts : e2s' = <<t>>
    /\ UNCHANGED <<args, S, R, s_out, r_out, e2r, closed, E, fh, rnd>>

\* the peer of the receiver writes a text (read at qkd_receiver.py 50, 85,
\* 106, 139 and 161); of the photons it may write for ever, the first
\* PeerPhotons are followed
p_send_receiver ==
    /\ R.pc \in {"collect", "await_sync", "await_matches",
                 "await_check_indices", "await_confirm"}
    /\ Len(e2r) = 0
    /\ ~closed.e
    /\ \E t \in PeerPublicTexts \cup PeerPhotonTexts :
          /\ t \in PeerPhotonTexts => Len(R.received_photon_info) < PeerPhotons
          /\ e2r' = <<t>>
    /\ UNCHANGED <<args, S, R, s_out, r_out, e2s, closed, E, fh, rnd>>

\* the answers of a peer that measured every photon in the rectilinear
\* basis and found 0: bases for up to SamplePhotons photons, check bits for
\* up to SampleMax indices
PeerLongTexts ==
    {PublicText("BOB_BASES", [k \in 1..n |-> "0"]) : n \in 0..SamplePhotons}
    \cup {PublicText("CHECK_BITS", [k \in 1..n |-> "0"]) : n \in 1..SampleMax}

\* that peer writes a text (read at qkd_sender.py 77 and 143)
p_send_long ==
    /\ S.pc \in {"await_bases", "await_check_bits"}
    /\ Len(e2s) = 0
    /\ ~closed.e
    /\ \E t \in PeerLongTexts : e2s' = <<t>>
    /\ UNCHANGED <<args, S, R, s_out, r_out, e2r, closed, E, fh, rnd>>

\* the peer closes its end of the connection
p_close ==
    /\ S.pc = "absent" \/ R.pc = "absent"
    /\ S.pc # "done" /\ R.pc # "done"
    /\ ~closed.e
    /\ closed' = [closed EXCEPT !.e = TRUE]
    /\ UNCHANGED <<args, S, R, s_out, r_out, e2r, e2s, E, fh, rnd>>

\* ------------------------------------------------------------ specification
\* the two roles
Next ==
    \/ s_prepare
    \/ s_transmit
    \/ s_sync
    \/ s_recv_bases
    \/ s_recv_check_bits
    \/ r_recv_photon
    \/ r_recv_sync
    \/ r_recv_matches
    \/ r_recv_check_indices
    \/ r_recv_confirm

\* ------------------------------------------------ frequency-hopping phase
\* args.message of a side is read when its hopping role starts; the two
\* sides are started with messages of their own
MessageChars == {"a", ","}

Messages == UNION {[1..n -> MessageChars] : n \in 0..MaxMessage}

\* the hopping phase entered whatever the QKD role returned
QkdSeedAny(qkd_seed) == TRUE

\* "if qkd_seed is not None" (qkd_sender.py 298, qkd_receiver.py 324)
QkdSeedReturned(qkd_seed) == qkd_seed # NoSeed

\* can a side take a step of its hopping phase that is not a timeout
SenderFhRuns ==
    /\ S.pc = "done"
    /\ \/ S.fh_pc \in {"main", "send"}
       \/ S.fh_pc = "await_ack" /\ Len(fh.r2s) > 0

ReceiverFhRuns ==
    /\ R.pc = "done"
    /\ \/ R.fh_pc = "main"
       \/ R.fh_pc \in {"await_ready", "listen"} /\ Len(fh.s2r) > 0

FhQuiet == Quiet /\ ~SenderFhRuns /\ ~ReceiverFhRuns

\* one step of the sender's side of the hopping phase; when the role has
\* returned, __main__ (line 336) closes fh_conn
SenderFhStep(st, sends, rest) ==
    /\ S' = st
    /\ fh' = [fh EXCEPT !.s2r = @ \o sends, !.r2s = rest,
                        !.s_closed = (st.fh_pc = "exit")]
    /\ UNCHANGED <<args, R, s_out, r_out, e2r, e2s, closed, E, rnd>>

\* the except clause of qkd_sender.py 244-246
SenderFhFailed(st) == [st EXCEPT !.fh_pc = "exit", !.fh_status = "Error"]

\* qkd_sender.py 297-302 and 212-225: the hopping phase is entered with the
\* seed of the QKD role, or skipped
s_main ==
    /\ S.pc = "done"
    /\ S.fh_pc = "main"
    /\ \E message \in Messages, fails \in WriteFails(fh.r_closed) :
        LET pattern == generate_hopping_pattern(S.qkd_seed, Len(message),
                                                FREQUENCIES)
            started == [S EXCEPT !.message = message]
        IN  IF ~QkdSeedReturned(S.qkd_seed)
            THEN /\ ~fails /\ message = <<>>
                 /\ SenderFhStep([S EXCEPT !.fh_pc = "exit",
                                           !.fh_status = "Skipped (QKD Fail)"],
                                 <<>>, fh.r2s)
            ELSE IF Len(pattern) = 0
            THEN /\ ~fails
                 /\ SenderFhStep([started EXCEPT
                                    !.fh_pc = "exit",
                                    !.fh_status = "Pattern Generation Fail"],
                                 <<>>, fh.r2s)
            ELSE IF fails
            THEN SenderFhStep(
                   SenderFhFailed([started EXCEPT !.hopping_pattern = pattern]),
                   <<>>, fh.r2s)
            ELSE SenderFhStep([started EXCEPT !.fh_pc = "await_ack",
                                              !.hopping_pattern = pattern],
                              <<<<"FH_READY">>>>, fh.r2s)

\* qkd_sender.py 227-230: the acknowledgement is awaited
s_fh_ack ==
    /\ S.fh_pc = "await_ack"
    /\ \E raw \in RecvOutcomes(fh.r2s, fh.r_closed, FhQuiet) :
        IF raw.st = "data" /\ raw.data = <<"FH_ACK">>
        THEN SenderFhStep([S EXCEPT !.fh_pc = "send"], <<>>, raw.rest)
        ELSE SenderFhStep(SenderFhFailed(S), <<>>, raw.rest)

\* qkd_sender.py 233-242: one packet of the message, or FH_END after the last
s_fh_send ==
    /\ S.fh_pc = "send"
    /\ \E fails \in WriteFails(fh.r_closed) :
        IF fails
        THEN SenderFhStep(SenderFhFailed(S), <<>>, fh.r2s)
        ELSE IF S.fh_i < Len(S.message)
        THEN SenderFhStep([S EXCEPT !.fh_i = @ + 1],
                          <<PacketText(At(S.message, S.fh_i),
                                       At(S.hopping_pattern, S.fh_i))>>,
                          fh.r2s)
        ELSE SenderFhStep([S EXCEPT !.fh_pc = "exit", !.fh_status = "Success"],
                          <<<<"FH_END">>>>, fh.r2s)

\* one step of the receiver's side of the hopping phase; when the role has
\* returned, __main__ closes fh_sock
ReceiverFhStep(st, sends, rest) ==
    /\ R' = st
    /\ fh' = [fh EXCEPT !.r2s = @ \o sends, !.s2r = rest,
                        !.r_closed = (st.fh_pc = "exit")]
    /\ UNCHANGED <<args, S, s_out, r_out, e2r, e2s, closed, E, rnd>>

\* the except clause of qkd_receiver.py 281-283
ReceiverFhFailed(st) == [st EXCEPT !.fh_pc = "exit", !.fh_status = "Error"]

\* qkd_receiver.py 258-265: the reception loop has been left
ReceiverFhEnded(st, fh_status) ==
    [st EXCEPT !.fh_pc = "exit", !.fh_status = fh_status]

\* qkd_receiver.py 323-328 and 204-219
r_main ==
    /\ R.pc = "done"
    /\ R.fh_pc = "main"
    /\ \E message \in Messages :
        LET pattern == generate_hopping_pattern(R.qkd_seed, Len(message),
                                                FREQUENCIES)
            started == [R EXCEPT !.message = message]
        IN  IF ~QkdSeedReturned(R.qkd_seed)
            THEN /\ message = <<>>
                 /\ ReceiverFhStep([R EXCEPT !.fh_pc = "exit",
                                             !.fh_status = "Skipped (QKD Fail)"],
                                   <<>>, fh.s2r)
            ELSE IF Len(pattern) = 0
            THEN ReceiverFhStep([started EXCEPT
                                   !.fh_pc = "exit",
                                   !.fh_status = "Pattern Generation Fail"],
                                <<>>, fh.s2r)
            ELSE ReceiverFhStep([started EXCEPT !.fh_pc = "await_ready",
                                                !.hopping_pattern = pattern],
                                <<>>, fh.s2r)

\* qkd_receiver.py 221-227: FH_READY is awaited and acknowledged
r_fh_ready ==
    /\ R.fh_pc = "await_ready"
    /\ \E raw \in RecvOutcomes(fh.s2r, fh.s_closed, FhQuiet),
          fails \in WriteFails(fh.s_closed) :
        IF raw.st = "data" /\ raw.data = <<"FH_READY">>
        THEN IF fails
             THEN ReceiverFhStep(ReceiverFhFailed(R), <<>>, raw.rest)
             ELSE ReceiverFhStep([R EXCEPT !.fh_pc = "listen"],
                                 <<<<"FH_ACK">>>>, raw.rest)
        ELSE ~fails /\ ReceiverFhStep(ReceiverFhFailed(R), <<>>, raw.rest)

\* qkd_receiver.py 242-256: one packet taken apart and compared
PacketRead(st, data) ==
    LET parts == Split(data, ",")
    IN  IF Len(parts) # 2 \/ ~FloatParses(parts[2])
        THEN [st EXCEPT !.received_message = @ \o <<"?">>,
                        !.malformed_packets = @ + 1]
        ELSE IF FloatTenths(parts[2]) = At(st.hopping_pattern, st.fh_i)
        THEN [st EXCEPT !.chars_received = @ + 1,
                        !.received_message = @ \o parts[1]]
        ELSE [st EXCEPT !.chars_received = @ + 1,
                        !.received_message = @ \o <<"?">>,
                        !.freq_mismatches = @ + 1]

\* one iteration of the loop of qkd_receiver.py 230-256, with lines 258-265
\* when the loop is left
r_fh_listen ==
    /\ R.fh_pc = "listen"
    /\ \E raw \in RecvOutcomes(fh.s2r, fh.s_closed, FhQuiet) :
        LET read == [PacketRead(R, raw.data) EXCEPT !.fh_i = @ + 1]
        IN  IF raw.st = "timeout"
            THEN ReceiverFhStep(ReceiverFhFailed(R), <<>>, raw.rest)
            ELSE IF raw.st = "closed"
            THEN ReceiverFhStep(ReceiverFhEnded(R, "Connection Closed Mid-FH"),
                                <<>>, raw.rest)
            ELSE IF raw.data = <<"FH_END">>
            THEN ReceiverFhStep(ReceiverFhEnded(R, "Success (FH_END Received)"),
                                <<>>, raw.rest)
            ELSE IF read.fh_i < Len(R.hopping_pattern)
            THEN ReceiverFhStep(read, <<>>, raw.rest)
            ELSE ReceiverFhStep(ReceiverFhEnded(read, "Ended without FH_END"),
                                <<>>, raw.rest)

\* ---------------------------------------- calls of generate_hopping_pattern
\* the first call
h_call ==
    /\ rnd.pc = "call"
    /\ LET res == call_generate_hopping_pattern(rnd.seed, rnd.length,
                                                rnd.frequencies, rnd.global)
       IN  rnd' = [rnd EXCEPT !.pc = "between", !.first = res.pattern,
                              !.global = res.global]
    /\ UNCHANGED <<args, S, R, s_out, r_out, e2r, e2s, closed, E, fh>>

\* between the calls the process draws from its global generator (as at
\* qkd_sender.py 237)
h_draw ==
    /\ rnd.pc = "between"
    /\ rnd.draws < MaxDraws
    /\ rnd' = [rnd EXCEPT !.global = RngNext(@), !.draws = @ + 1]
    /\ UNCHANGED <<args, S, R, s_out, r_out, e2r, e2s, closed, E, fh>>

\* the second call, same arguments
h_call_again ==
    /\ rnd.pc = "between"
    /\ LET res == call_generate_hopping_pattern(rnd.seed, rnd.length,
                                                rnd.frequencies, rnd.global)
       IN  rnd' = [rnd EXCEPT !.pc = "done", !.second = res.pattern,
                              !.global = res.global]
    /\ UNCHANGED <<args, S, R, s_out, r_out, e2r, e2s, closed, E, fh>>

NextPattern ==
    \/ h_call
    \/ h_draw
    \/ h_call_again

\* a whole run of the two programs: key distribution, then hopping
NextSession ==
    \/ Next
    \/ s_main
    \/ s_fh_ack
    \/ s_fh_send
    \/ r_main
    \/ r_fh_ready
    \/ r_fh_listen

\* the two roles and the three loops of Eve
NextEve ==
    \/ Next
    \/ e_intercept
    \/ e_relay_ab
    \/ e_relay_ba
    \/ e_stop

\* one role and the program at the other end of its socket
NextPeer ==
    \/ Next
    \/ p_send_sender
    \/ p_send_receiver
    \/ p_close

\* the sender and the peer that reports rectilinear bases
NextSample ==
    \/ s_prepare
    \/ s_transmit
    \/ s_sync
    \/ s_recv_bases
    \/ s_recv_check_bits
    \/ p_send_long
    \/ p_close

Spec == Init /\ [][Next]_vars

SpecSample == InitSample /\ [][NextSample]_vars

SpecPattern == InitPattern /\ [][NextPattern]_vars

SpecSession == InitSession /\ [][NextSession]_vars

SpecEve == InitEve /\ [][NextEve]_vars

SpecLong == InitLong /\ [][Next]_vars

\* Every recv() of Eve's loops has a timeout (1.0 s at line 39, 0.5 s at
\* line 96), so a running thread comes back to the test of stop_event: a
\* loop that can leave does leave.
SpecEveFair == InitEve /\ [][NextEve]_vars /\ WF_vars(e_stop)

SpecPeer == InitPeer /\ [][NextPeer]_vars

\* The roles and Eve's loops are processes and threads of their own, and
\* every recv() of theirs has a timeout (channels.py 31 and 72, eve.py 39
\* and 96): while some of them can take a step, a timeout included, one of
\* them does.
\* the sessions of the liveness check: the two roles connected directly
InitLive ==
    /\ args \in [photon_count : 1..LivePhotons, loss_rate : LossRates,
                 eve : {FALSE}, rng : {"full"}]
    /\ Start

\* The two roles are processes of their own and every recv() of theirs has
\* the timeout SOCKET_TIMEOUT (channels.py 31 and 72): while one of them can
\* take a step, a timeout included, one of them does.
SpecLive == InitLive /\ [][Next]_vars /\ WF_vars(Next)

\* ------------------------------------------------------------------ claims
\* the sender has compared the disclosed bits (lines 150-169)
SenderDecided ==
    /\ S.pc = "done"
    /\ S.status \in {"QBER Fail", "Key Too Short", "Success"}

\* C1: in a session with no interceptor and loss rate 0 the sender never
\* counts a mismatch over the verification sample, whatever bits, bases and
\* sample were drawn: at DECIDE the count is 0 and the session is not
\* rejected for its error rate.
C1_NoMismatchWithoutLossOrEve ==
    (~args.eve /\ args.loss_rate = 0)
        => (S.mismatches = 0 /\ S.status # "QBER Fail")

\* a lossless session reached DECIDE having compared a disclosed bit 1
C1_Witness ==
    /\ ~args.eve /\ args.loss_rate = 0
    /\ SenderDecided
    /\ \E k \in 1..Len(S.check_indices_relative_sifted) :
          At(S.sifted_sender_key, S.check_indices_relative_sifted[k]) = 1

\* C2: with no interceptor and the same desired key length on both sides,
\* if both roles end with status Success their final keys are equal.
C2_SameFinalKey ==
    (/\ ~args.eve
     /\ S.status = "Success" /\ R.status = "Success"
     /\ S.key_length = R.key_length)
        => S.final_key = R.final_key

\* both roles succeeded with a two-bit key that holds a 1
C2_Witness ==
    /\ ~args.eve
    /\ S.status = "Success" /\ R.status = "Success"
    /\ S.key_length = R.key_length
    /\ Len(S.final_key) = 2
    /\ 1 \in Range(S.final_key)

\* both roles ended in Success, configured with the same key length
BothSucceeded ==
    /\ S.status = "Success" /\ R.status = "Success"
    /\ S.key_length = R.key_length

C4_Original == BothSucceeded => S.final_key = R.final_key

\* the error rate the sender measured is within its threshold
WithinThreshold ==
    /\ S.qber_threshold # <<>>
    /\ S.mismatches * S.qber_threshold[2]
           <= S.qber_threshold[1] * Len(S.check_indices_relative_sifted)

\* C4: with or without an interceptor, a role ends in status Success only
\* if the error rate the sender measured over the sample is within the
\* threshold, and when the sender rejects for the error rate no role holds
\* a key or a seed.  (Keys that differ outside the sample are not detected.)
C4_SuccessOnlyWithinThreshold ==
    /\ (S.status = "Success" \/ R.status = "Success") => WithinThreshold
    /\ S.status = "QBER Fail" =>
          /\ S.final_key = NoKey /\ S.qkd_seed = NoSeed
          /\ R.final_key = NoKey /\ R.qkd_seed = NoSeed

\* with Eve on the line both roles succeeded, holding different keys
C4_Witness ==
    /\ args.eve
    /\ BothSucceeded
    /\ WithinThreshold
    /\ S.mismatches = 0
    /\ S.final_key # R.final_key

\* the sender takes its DECIDE step (lines 166-189)
DecideStep ==
    /\ S.pc = "await_check_bits"
    /\ S'.pc = "done"
    /\ S'.status \in {"QBER Fail", "Key Too Short", "Success"}

\* C5: at DECIDE the sender rejects exactly when mismatches / sample size is
\* strictly greater than the threshold: then it sends ABORT, ends with the
\* failed status and holds no key and no seed; when the rate is equal to or
\* below the threshold it sends CONFIRM_KEY.
C5_RejectIffAboveThreshold ==
    [][DecideStep =>
        IF S'.mismatches * S'.qber_threshold[2]
              > S'.qber_threshold[1] * Len(S.check_indices_relative_sifted)
        THEN /\ S'.status = "QBER Fail"
             /\ s_out' = Append(s_out, <<"ABORT", ":", "QBER_HIGH">>)
             /\ S'.final_key = NoKey
             /\ S'.qkd_seed = NoSeed
        ELSE /\ S'.status # "QBER Fail"
             /\ s_out' = Append(s_out, <<"CONFIRM_KEY", ":", "OK">>)]_vars

\* the sender rejected a sample with a mismatch, its ABORT still unread
C5_Witness ==
    /\ S.status = "QBER Fail"
    /\ S.mismatches >= 1
    /\ Len(s_out) >= 1
    /\ s_out[Len(s_out)] = <<"ABORT", ":", "QBER_HIGH">>

\* both roles have built a sifted key and gone on with it
BothSifted ==
    /\ Len(S.sifted_sender_key) > 0
    /\ Len(R.sifted_receiver_key) > 0

\* C6: at any loss rate, with or without Eve on the quantum lane, once both
\* roles have built their sifted keys the two keys have the same length.
C6_SiftedSameLength ==
    BothSifted => Len(S.sifted_sender_key) = Len(R.sifted_receiver_key)

\* with Eve on the line and a photon lost, both roles built a sifted key
C6_Witness ==
    /\ args.eve
    /\ Len(S.photons_sent_indices) < args.photon_count
    /\ BothSifted

\* C7: with no interceptor, at any loss rate and also when the receiver
\* stopped collecting early, the two sifted keys are equal bit for bit:
\* position p of both keys is the bit of the same prepared photon.
C7_SiftedKeysEqual ==
    (~args.eve /\ BothSifted) =>
        /\ S.sifted_sender_key = R.sifted_receiver_key
        /\ S.match_indices_relative_to_bob = R.match_indices_relative_to_bob
        /\ \A p \in 1..Len(S.sifted_sender_key) :
              LET j == S.match_indices_relative_to_bob[p]
              IN  /\ S.sifted_sender_key[p]
                        = At(S.sender_bits_all, At(S.photons_sent_indices, j))
                  /\ R.sifted_receiver_key[p]
                        = At(R.received_photon_info, j).measured_bit

\* the receiver stopped collecting before the last photon sent, the sender
\* counts at a loss rate above 0, and both roles built a sifted key
C7_Witness ==
    /\ ~args.eve
    /\ args.loss_rate > 0
    /\ Len(R.received_photon_info) < Len(S.photons_sent_indices)
    /\ BothSifted

\* the positions of a sifted key of n bits that are not in the sample, ascending
Unsampled(n, sample) == SortedSeq((0..(n - 1)) \ Range(sample))

\* C8 as stated: the final key a role returns on Success has length
\* len(sifted key) - len(sample), and no bit at a sampled index is in it.
C8_Original ==
    /\ S.status = "Success" =>
          Len(S.final_key) = Len(S.sifted_sender_key)
                               - Len(S.check_indices_relative_sifted)
    /\ R.status = "Success" =>
          Len(R.final_key) = Len(R.sifted_receiver_key)
                               - Len(R.indices_to_check_relative_sifted)

\* what removing the sample from the sifted key must give
RemovalExact(final_key_bits, sifted_key, sample) ==
    LET left == Unsampled(Len(sifted_key), sample)
    IN  /\ Len(final_key_bits) = Len(sifted_key) - Len(sample)
        /\ \A p \in 1..Len(final_key_bits) :
              final_key_bits[p] = At(sifted_key, left[p])

\* C8: when a role has passed verification, its sifted key with the sampled
\* indices removed, before truncation, has length len(sifted key) -
\* len(sample) and holds the bits of the unsampled positions, in order; the
\* key returned on Success is no longer than that.
C8_RemovalBeforeTruncation ==
    /\ S.status \in {"Success", "Key Too Short"} =>
          /\ RemovalExact(S.final_key_bits, S.sifted_sender_key,
                          S.check_indices_relative_sifted)
          /\ S.status = "Success" => Len(S.final_key) <= Len(S.final_key_bits)
    /\ R.status \in {"Success", "Key Too Short"} =>
          /\ RemovalExact(R.final_key_bits, R.sifted_receiver_key,
                          R.indices_to_check_relative_sifted)
          /\ R.status = "Success" => Len(R.final_key) <= Len(R.final_key_bits)

\* both roles returned a key shorter than what removal of the sample left
C8_Witness ==
    /\ S.status = "Success" /\ R.status = "Success"
    /\ Len(S.final_key) < Len(S.sifted_sender_key)
                             - Len(S.check_indices_relative_sifted)
    /\ Len(R.final_key) < Len(R.sifted_receiver_key)
                             - Len(R.indices_to_check_relative_sifted)

\* the key a role returns: key_length bits, the first unsampled ones in order
ReturnedKeyExact(final_key, key_length, sifted_key, sample) ==
    LET left == Unsampled(Len(sifted_key), sample)
    IN  /\ Len(final_key) = key_length
        /\ \A p \in 1..key_length : final_key[p] = At(sifted_key, left[p])

\* C9: whenever a role ends with status Success, the final key it returns
\* has exactly the desired length and is the first bits, in the original
\* order, of its sifted key with the sampled indices removed.
C9_FinalKeyIsTruncatedRemainder ==
    /\ S.status = "Success" =>
          ReturnedKeyExact(S.final_key, S.key_length, S.sifted_sender_key,
                           S.check_indices_relative_sifted)
    /\ R.status = "Success" =>
          ReturnedKeyExact(R.final_key, R.key_length, R.sifted_receiver_key,
                           R.indices_to_check_relative_sifted)

\* the receiver returned a truncated key whose first bit differs from the
\* last bit that removal of the sample left
C9_Witness ==
    /\ R.status = "Success"
    /\ Len(R.final_key_bits) > R.key_length
    /\ R.final_key[1] # R.final_key_bits[Len(R.final_key_bits)]

\* A long session stands for the scenario of 64 prepared events and desired
\* key length 16: MinSeedKeyLen + LongExtra photons prepared, loss rate 0,
\* no interceptor, desired key length MinSeedKeyLen on both sides (a role
\* that has not read its key length yet is configured with it as well).
LongScenarioEnded ==
    /\ ~args.eve /\ args.loss_rate = 0
    /\ args.photon_count = MinSeedKeyLen + LongExtra
    /\ S.pc = "done" /\ R.pc = "done"
    /\ S.key_length \in {0, MinSeedKeyLen}
    /\ R.key_length \in {0, MinSeedKeyLen}

\* nothing failed underway: every photon was collected and no role ended
\* with an exception
NothingFailed ==
    /\ Len(R.received_photon_info) = args.photon_count
    /\ S.status # "Error" /\ R.status # "Error"

LongScenarioSucceeded ==
    /\ S.status = "Success" /\ R.status = "Success"
    /\ Len(S.final_key) = MinSeedKeyLen /\ Len(R.final_key) = MinSeedKeyLen
    /\ S.qkd_seed = R.qkd_seed

AgreedCount ==
    Cardinality({k \in 1..Len(R.received_photon_info) :
        R.received_photon_info[k].bob_basis = S.sender_bases_all[k]})

\* enough agreeing events that the desired length is left after the sample
EnoughAgreed ==
    AgreedCount - Max(1, AgreedCount \div 4) >= MinSeedKeyLen

CheckBitsRead ==
    /\ S.pc = "done"
    /\ S.data_type = <<"CHECK_BITS">>
    /\ Len(S.check_indices_relative_sifted) > 0

\* the sender has written a CONFIRM_KEY message
ConfirmSent ==
    \E k \in 1..Len(s_out) : StartsWith(s_out[k], <<"CONFIRM_KEY">>)

\* C12: when the CHECK_BITS payload the sender receives has a length other
\* than the number of indices it sampled, the sender ends with the failed
\* status Error, holds no key and no seed, has sent ABORT and no
\* CONFIRM_KEY, and has compared no bit of the payload; whenever it does
\* compare, every position it reads lies inside the payload.
C12_CheckBitsLengthMismatchAborts ==
    /\ (/\ CheckBitsRead
        /\ TextLen(S.receiver_check_bits_str)
               # Len(S.check_indices_relative_sifted))
          => /\ S.status = "Error" /\ S.exc = "ValueError"
             /\ S.final_key = NoKey /\ S.qkd_seed = NoSeed
             /\ S.mismatches = 0 /\ S.qber_threshold = <<>>
             /\ ~ConfirmSent
             /\ s_out[Len(s_out)] = <<"ABORT", ":", "Sender Error">>
    /\ (CheckBitsRead /\ S.status # "Error")
          => \A i \in 0..(Len(S.check_indices_relative_sifted) - 1) :
                i < TextLen(S.receiver_check_bits_str)

\* the sender sampled one index, was sent two check bits and failed
C12_Witness ==
    /\ CheckBitsRead
    /\ Len(S.check_indices_relative_sifted) = 1
    /\ S.receiver_check_bits_str = <<"0", "1">>
    /\ S.status = "Error"

\* the statuses a role function sets before it returns
ExplicitStatuses == {"Success", "QBER Fail", "Key Too Short", "Aborted", "Error"}

\* what a role function has returned: a seed and a key exactly on Success
ReturnsKeyIffSuccess(st) ==
    /\ st.status \in ExplicitStatuses
    /\ st.status # "Not Started"
    /\ (st.status = "Success") <=> (st.final_key # NoKey /\ st.qkd_seed # NoSeed)
    /\ (st.status # "Success") <=> (st.final_key = NoKey /\ st.qkd_seed = NoSeed)

\* C13: when either role function has returned, in whichever step it failed
\* or finished, the session status is one of the explicit outcomes, never
\* 'Not Started', and the function has returned a seed and a key if and only
\* if that status is Success.
C13_ExplicitStatusOnReturn ==
    /\ S.pc = "done" => ReturnsKeyIffSuccess(S)
    /\ R.pc = "done" => ReturnsKeyIffSuccess(R)

\* the sender failed on a payload that is no list of bases, before any
\* sifting
C13_Witness ==
    /\ S.pc = "done"
    /\ S.data_type = <<"BOB_BASES">>
    /\ S.exc = "ValueError"
    /\ Len(S.bob_bases_list) = 0
    /\ S.status = "Error"

\* the frames of the public lane among frames written on a socket
PublicFrames(frames) ==
    SelectSeq(frames, LAMBDA f : ~StartsWith(f, <<"P", ":">>))

\* what a step takes off the front of a stream, and what it adds at its end
Taken(before, after) == SubSeq(before, 1, Len(before) - Len(after))

Added(before, after) == SubSeq(after, Len(before) + 1, Len(after))

\* C14: while the interceptor runs and the destination is still connected,
\* every step of one of her loops that reads public-lane messages of the
\* initiator writes them to the responder, and every step that reads
\* messages of the responder writes them to the initiator, each once, in
\* order and unmodified, whichever loop did the read.
C14_PublicTrafficRelayed ==
    [][args.eve =>
        /\ (Len(s_out') < Len(s_out) /\ ~closed.r) =>
              PublicFrames(Added(e2r, e2r')) = PublicFrames(Taken(s_out, s_out'))
        /\ (Len(r_out') < Len(r_out) /\ ~closed.s) =>
              Added(e2s, e2s') = Taken(r_out, r_out')]_vars

\* a step writes an event frame to the responder
EventWrittenToResponder ==
    \E k \in 1..Len(Added(e2r, e2r')) :
        StartsWith(Added(e2r, e2r')[k], <<"P", ":">>)

\* C15: while the interceptor runs, every step that writes a quantum-lane
\* event to the responder is an iteration of the interception loop, which
\* writes the event re-created with the interceptor's own basis and measured
\* bit; no loop forwards an event frame of the initiator as it was sent.
C15_EventsRecreated ==
    [][(args.eve /\ EventWrittenToResponder) => e_intercept]_vars

\* Eve's loops that have been left
AnyLoopExited ==
    E.intercept = "exited" \/ E.relay_ab = "exited" \/ E.relay_ba = "exited"

AllLoopsExited ==
    E.intercept = "exited" /\ E.relay_ab = "exited" /\ E.relay_ba = "exited"

\* C16: in the interceptor, once any of the three loops has detected a peer
\* disconnect or has been left, the shared stop flag is set, and from then
\* on every other loop eventually leaves as well.
C16_StopFlagStopsEveryLoop ==
    /\ [](AnyLoopExited => E.stop_event)
    /\ (E.stop_event ~> AllLoopsExited)

\* the responder closed while the initiator was still connected, and all
\* three loops have been left
C16_Witness ==
    /\ args.eve
    /\ closed.r /\ ~closed.s
    /\ E.stop_event
    /\ AllLoopsExited

\* a role is blocked in recv() with nothing to read and its peer connected:
\* the only way on is socket.timeout
SenderTimesOut ==
    /\ S.pc \in {"await_bases", "await_check_bits"}
    /\ Len(SenderIn) = 0 /\ ~SenderInClosed
    /\ S' # S

ReceiverTimesOut ==
    /\ R.pc \in {"collect", "await_sync", "await_matches",
                 "await_check_indices", "await_confirm"}
    /\ Len(ReceiverIn) = 0 /\ ~ReceiverInClosed
    /\ R' # R

\* C17: a receive timeout on its own never ends a session in failure: the
\* step in which a blocking receive of the sender role or of the receiver
\* role times out does not make the role return, and the role goes on
\* waiting for the same message.
C17_TimeoutNeverFails ==
    [][/\ SenderTimesOut => (S'.pc = S.pc /\ S'.status # "Error")
       /\ ReceiverTimesOut => (R'.pc = R.pc /\ R'.status # "Error")]_vars

\* the receiver's recv() in the collection loop returned an event frame
\* that receive_photon cannot decode
ReceiverReadsMalformedEvent ==
    /\ R.pc = "collect"
    /\ R' # R
    /\ Len(ReceiverIn') < Len(ReceiverIn)
    /\ LET data == Flatten(Taken(ReceiverIn, ReceiverIn'))
       IN  /\ StartsWith(data, <<"P", ":">>)
           /\ receive_photon([st |-> "data", data |-> data, rest |-> <<>>]).kind
                 = "none"

\* C18: during the receiver's collection phase a timeout or a malformed
\* event frame costs only the affected event: the step that meets it stores
\* nothing, fails nothing and leaves the receiver in the collection loop,
\* ready for the events that follow.
C18_CollectionSkipsBadEvent ==
    [][((R.pc = "collect" /\ ReceiverTimesOut) \/ ReceiverReadsMalformedEvent)
          => /\ R'.pc = "collect"
             /\ R'.status = "Not Started"
             /\ R'.received_photon_info = R.received_photon_info]_vars

\* the tag a role awaits at each of its blocking receives
ExpectedType ==
    [await_bases |-> <<"BOB_BASES">>, await_check_bits |-> <<"CHECK_BITS">>,
     await_sync |-> <<"SYNC">>, await_matches |-> <<"MATCH_INDICES_REL">>,
     await_check_indices |-> <<"CHECK_INDICES_REL_SIFT">>,
     await_confirm |-> <<"CONFIRM_KEY">>]

\* a step of a role awaiting the tag of pc meets a disconnect, or reads a
\* message whose tag is neither that tag nor ABORT
MeetsDisconnectOrOtherType(pc, in, inClosed, inAfter) ==
    /\ pc \in DOMAIN ExpectedType
    /\ \/ Len(in) = 0 /\ inClosed
       \/ /\ Len(inAfter) < Len(in)
          /\ LET m == receive([st |-> "data", data |-> Flatten(Taken(in, inAfter)),
                               rest |-> <<>>])
             IN  m.type \notin {ExpectedType[pc], <<"ABORT">>}

\* the texts written in a step are one ABORT message that carries a reason
OneAbortWithReason(texts) ==
    /\ Len(texts) = 1
    /\ StartsWith(texts[1], <<"ABORT", ":">>)
    /\ Len(texts[1]) > 2

\* C19: whenever a role awaiting a specific tagged public message instead
\* sees a disconnect or a message of another type that is not ABORT, the
\* role returns in that step with a failed status, no key and no seed, and
\* has written an ABORT message with a reason before it returns.
C19_AwaitFailureSendsAbort ==
    [][/\ (S' # S /\ MeetsDisconnectOrOtherType(S.pc, SenderIn, SenderInClosed,
                                                 SenderIn'))
          => /\ S'.pc = "done" /\ S'.status = "Error"
             /\ S'.final_key = NoKey /\ S'.qkd_seed = NoSeed
             /\ OneAbortWithReason(Added(s_out, s_out'))
       /\ (R' # R /\ MeetsDisconnectOrOtherType(R.pc, ReceiverIn, ReceiverInClosed,
                                                 ReceiverIn'))
          => /\ R'.pc = "done" /\ R'.status = "Error"
             /\ R'.final_key = NoKey /\ R'.qkd_seed = NoSeed
             /\ OneAbortWithReason(Added(r_out, r_out'))]_vars

\* the receiver, with photons stored and awaiting MATCH_INDICES_REL, read a
\* BOB_BASES message, failed and wrote its ABORT
C19_Witness ==
    /\ R.pc = "done"
    /\ R.status = "Error" /\ R.exc = "TypeError"
    /\ R.data_type = <<"BOB_BASES">>
    /\ R.photons_expected_from_sync >= 0
    /\ Len(r_out) >= 2
    /\ StartsWith(r_out[Len(r_out)], <<"ABORT", ":">>)

\* what recv() on a socket with these frames queued may return: the frames
\* read so far, or, with the peer gone or silent, b'' or socket.timeout
PossibleReads(stream) ==
    {[st |-> "closed", data |-> <<>>, rest |-> <<>>],
     [st |-> "timeout", data |-> <<>>, rest |-> <<>>]}
    \cup {[st |-> "data", data |-> c.data, rest |-> c.rest] : c \in Chunks(stream)}

\* the failure a read stands for, given what the channel function made of it
FailureOf(raw, kind) ==
    IF raw.st = "closed" THEN "connection closed"
    ELSE IF raw.st = "timeout" THEN "receive timeout"
    ELSE IF kind = "none" THEN "malformed payload"
    ELSE "none"

\* C20: QuantumChannel.receive_photon and PublicChannel.receive report
\* connection closed, receive timeout and malformed payload as results the
\* caller can tell apart: reads of a role's socket that stand for different
\* failures never give the same result.
C20_FailuresDistinguishable ==
    /\ \A r1, r2 \in PossibleReads(ReceiverIn) :
          (/\ FailureOf(r1, receive_photon(r1).kind) # "none"
           /\ FailureOf(r2, receive_photon(r2).kind) # "none"
           /\ FailureOf(r1, receive_photon(r1).kind)
                 # FailureOf(r2, receive_photon(r2).kind))
             => receive_photon(r1) # receive_photon(r2)
    /\ \A r1, r2 \in PossibleReads(SenderIn) \cup PossibleReads(ReceiverIn) :
          (/\ FailureOf(r1, receive(r1).kind) # "none"
           /\ FailureOf(r2, receive(r2).kind) # "none"
           /\ FailureOf(r1, receive(r1).kind) # FailureOf(r2, receive(r2).kind))
             => receive(r1) # receive(r2)

\* a role blocked in PublicChannel.receive reads one well-formed
\* quantum-event frame
ReceiverReadsEventOnPublic ==
    /\ R.pc \in {"await_sync", "await_matches", "await_check_indices",
                 "await_confirm"}
    /\ R' # R
    /\ Len(ReceiverIn') < Len(ReceiverIn)
    /\ receive_photon([st |-> "data", rest |-> <<>>,
                       data |-> Flatten(Taken(ReceiverIn, ReceiverIn'))]).kind
          = "photon"

SenderReadsEventOnPublic ==
    /\ S.pc \in {"await_bases", "await_check_bits"}
    /\ S' # S
    /\ Len(SenderIn') < Len(SenderIn)
    /\ receive_photon([st |-> "data", rest |-> <<>>,
                       data |-> Flatten(Taken(SenderIn, SenderIn'))]).kind
          = "photon"

\* C21: when a quantum-event frame reaches PublicChannel.receive, the type
\* the caller gets is the flag PHOTON_ON_PUBLIC, not the tag of an ordinary
\* message split off at the first colon.
C21_EventOnPublicFlagged ==
    [][/\ ReceiverReadsEventOnPublic => R'.data_type = <<"PHOTON_ON_PUBLIC">>
       /\ SenderReadsEventOnPublic => S'.data_type = <<"PHOTON_ON_PUBLIC">>]_vars

\* a step appends a message with this tag to a stream
Wrote(before, after, tag) ==
    \E k \in 1..Len(Added(before, after)) : Added(before, after)[k][1] = tag

\* how far a role has come
SenderRank ==
    [prepare |-> 0, transmit |-> 1, await_bases |-> 2, await_check_bits |-> 3,
     done |-> 4]

ReceiverRank ==
    [collect |-> 0, await_sync |-> 1, await_matches |-> 2,
     await_check_indices |-> 3, await_confirm |-> 4, done |-> 5]

\* C22: in every session without an interceptor the public-lane messages
\* are sent in lock step, in the order SYNC, BOB_BASES, MATCH_INDICES_REL,
\* CHECK_INDICES_REL_SIFT, CHECK_BITS, CONFIRM_KEY: a role writes the
\* message of a step only in the step in which it leaves the wait for the
\* peer's preceding message, having received exactly that message, and as
\* no role ever goes back no message is written twice.
C22_LockStepOrder ==
    [][~args.eve =>
        /\ SenderRank[S'.pc] >= SenderRank[S.pc]
        /\ ReceiverRank[R'.pc] >= ReceiverRank[R.pc]
        /\ Wrote(s_out, s_out', "SYNC") =>
              /\ S.pc = "transmit" /\ S'.pc = "await_bases"
              /\ Len(Added(s_out, s_out')) = 1
        /\ Wrote(r_out, r_out', "BOB_BASES") =>
              /\ R.pc \in {"collect", "await_sync"} /\ R'.pc = "await_matches"
              /\ R'.data_type = <<"SYNC">>
              /\ Len(Added(r_out, r_out')) = 1
        /\ Wrote(s_out, s_out', "MATCH_INDICES_REL") =>
              /\ S.pc = "await_bases" /\ S'.pc \in {"await_check_bits", "done"}
              /\ S'.data_type = <<"BOB_BASES">>
              /\ Added(s_out, s_out')[1][1] = "MATCH_INDICES_REL"
              /\ Len(Added(s_out, s_out')) = 2
        /\ Wrote(s_out, s_out', "CHECK_INDICES_REL_SIFT") =>
              /\ S.pc = "await_bases" /\ S'.pc = "await_check_bits"
              /\ Added(s_out, s_out')[1][1] = "MATCH_INDICES_REL"
              /\ Added(s_out, s_out')[2][1] = "CHECK_INDICES_REL_SIFT"
        /\ Wrote(r_out, r_out', "CHECK_BITS") =>
              /\ R.pc = "await_check_indices" /\ R'.pc = "await_confirm"
              /\ R'.data_type = <<"CHECK_INDICES_REL_SIFT">>
              /\ Len(Added(r_out, r_out')) = 1
        /\ Wrote(s_out, s_out', "CONFIRM_KEY") =>
              /\ S.pc = "await_check_bits" /\ S'.pc = "done"
              /\ S'.data_type = <<"CHECK_BITS">>
              /\ Len(Added(s_out, s_out')) = 1]_vars

\* a session in which all six messages were sent and both roles succeeded
C22_Witness ==
    /\ ~args.eve
    /\ S.status = "Success" /\ R.status = "Success"
    /\ S.data_type = <<"CHECK_BITS">> /\ R.data_type = <<"CONFIRM_KEY">>
    /\ Len(s_out) = 0 /\ Len(r_out) = 0

\* the frames a step takes from the initiator are all of one kind
TakesEvents ==
    /\ Len(s_out') < Len(s_out)
    /\ PublicFrames(Taken(s_out, s_out')) = <<>>

TakesPublic ==
    /\ Len(s_out') < Len(s_out)
    /\ PublicFrames(Taken(s_out, s_out')) = Taken(s_out, s_out')

\* C23: in the interceptor each connection is received from by at most one
\* running loop at every moment, and so event frames of the initiator are
\* taken only by an iteration of the interception loop and public messages
\* of the initiator only by an iteration of the relay loop.
C23_ConnectionOwnedByOneLoop ==
    /\ [](args.eve => (/\ Cardinality(AliceConnReaders) <= 1
                       /\ Cardinality(BobConnReaders) <= 1))
    /\ [][args.eve => (/\ TakesEvents => e_intercept
                       /\ TakesPublic => e_relay_ab)]_vars

\* the positions of the peer's list that the sender must report: below
\* both the number of events sent and the number of bases reported, with
\* the peer's basis equal to the basis of the event sent in that position
MatchingPositions(st) ==
    {j \in 0..(Min(Len(st.photons_sent_indices), Len(st.bob_bases_list)) - 1) :
        At(st.bob_bases_list, j)
            = At(st.sender_bases_all, At(st.photons_sent_indices, j))}

\* C24: the list the sender sends in MATCH_INDICES_REL is exactly the set of
\* positions j, 0 <= j < min(events sent, bases reported by the peer), at
\* which the peer's j-th basis equals the basis of the j-th event actually
\* sent (found through its original index, lost events being skipped),
\* written in strictly ascending order.
C24_MatchListExact ==
    [][Wrote(s_out, s_out', "MATCH_INDICES_REL") =>
        /\ Added(s_out, s_out')[1]
              = <<"MATCH_INDICES_REL", ":">>
                  \o CommaJoin(SortedSeq(MatchingPositions(S')))
        /\ S'.match_indices_relative_to_bob = SortedSeq(MatchingPositions(S'))]_vars

\* the first event was lost, the peer reported more bases than events were
\* sent, and the sender reported position 0
C24_Witness ==
    /\ S.data_type = <<"BOB_BASES">>
    /\ Len(S.photons_sent_indices) = 1
    /\ S.photons_sent_indices[1] = 1
    /\ S.sender_bases_all[1] # S.sender_bases_all[2]
    /\ Len(S.bob_bases_list) = 2
    /\ S.match_indices_relative_to_bob = <<0>>

\* the sample size the sender is to use for a sifted key of this length
SampleSize(sifted_len, desired) ==
    LET capped == Max(1, Min(sifted_len \div 4, 2 * desired))
    IN  IF sifted_len - capped <= 0 THEN Max(1, sifted_len \div 2) ELSE capped

\* C25: whenever the sender sends CHECK_INDICES_REL_SIFT, the number s of
\* indices in it is max(1, min(sifted_len div 4, 2 * desired key length))
\* or, when that would leave no unchecked bit, max(1, sifted_len div 2), and
\* 1 <= s < sifted_len; with an empty sifted key or one of length 1 the
\* sender aborts and sends no CHECK_INDICES_REL_SIFT.
C25_SampleSize ==
    [][/\ Wrote(s_out, s_out', "CHECK_INDICES_REL_SIFT") =>
            LET sifted_len == Len(S'.sifted_sender_key)
                s == Len(S'.check_indices_relative_sifted)
            IN  /\ \E k \in 1..Len(Added(s_out, s_out')) :
                      Added(s_out, s_out')[k]
                        = <<"CHECK_INDICES_REL_SIFT", ":">>
                            \o CommaJoin(S'.check_indices_relative_sifted)
                /\ s = SampleSize(sifted_len, S'.key_length)
                /\ 1 <= s /\ s < sifted_len
       /\ (S.pc = "await_bases" /\ S' # S /\ Len(S'.sifted_sender_key) <= 1) =>
            /\ ~Wrote(s_out, s_out', "CHECK_INDICES_REL_SIFT")
            /\ Wrote(s_out, s_out', "ABORT")
            /\ S'.pc = "done" /\ S'.status = "Error"
            /\ S'.final_key = NoKey]_vars

\* a sample of 2 indices of a sifted key of 12 bits, capped by twice the
\* desired key length of 1
C25_Witness ==
    /\ S.pc = "await_check_bits"
    /\ Len(S.sifted_sender_key) = SamplePhotons
    /\ S.key_length = 1
    /\ Len(S.check_indices_relative_sifted) = 2

\* the index lists carried by the CHECK_INDICES_REL_SIFT messages among
\* these frames, as the receiver's parser reads them
CheckIndexLists(frames) ==
    {IntListOf(SubSeq(frames[k], 3, Len(frames[k]))) :
        k \in {j \in 1..Len(frames) : frames[j][1] = "CHECK_INDICES_REL_SIFT"}}

\* C26: every index list sent in CHECK_INDICES_REL_SIFT consists of pairwise
\* distinct indices in strictly ascending order, each within 0..sifted_len-1
\* of the sender's sifted key, and, when the public messages are delivered
\* (the receiver has read MATCH_INDICES_REL and is about to read the list),
\* each within range of the receiver's sifted key as well.
C26_CheckIndicesWellFormed ==
    \A frame \in Range(s_out) :
        frame[1] = "CHECK_INDICES_REL_SIFT" =>
            /\ IntListParses(SubSeq(frame, 3, Len(frame)))
            /\ \A list \in CheckIndexLists(<<frame>>) :
                  /\ Len(list) >= 1
                  /\ \A a \in 1..Len(list), b \in 1..Len(list) :
                        a < b => list[a] < list[b]
                  /\ \A a \in 1..Len(list) :
                        0 <= list[a] /\ list[a] < Len(S.sifted_sender_key)
                  /\ R.pc = "await_check_indices" =>
                        \A a \in 1..Len(list) :
                            list[a] < Len(R.sifted_receiver_key)

\* the receiver is about to read a list of two indices, the second one the
\* last position of its sifted key
C26_Witness ==
    /\ R.pc = "await_check_indices"
    /\ \E list \in CheckIndexLists(s_out) :
          /\ Len(list) = 2
          /\ list[2] = Len(R.sifted_receiver_key) - 1
          /\ list[2] = Len(S.sifted_sender_key) - 1

\* the receiver, waiting for the check indices, reads one
\* CHECK_INDICES_REL_SIFT message whose list has an index below 0 or at or
\* above the length of its sifted key
ReceiverReadsBadCheckIndex ==
    LET data == Flatten(Taken(ReceiverIn, ReceiverIn'))
        list == IntListOf(SubSeq(data, 3, Len(data)))
    IN  /\ R.pc = "await_check_indices"
        /\ R' # R
        /\ Len(data) >= 3
        /\ data[1] = "CHECK_INDICES_REL_SIFT" /\ data[2] = ":"
        /\ IntListParses(SubSeq(data, 3, Len(data)))
        /\ \E k \in 1..Len(list) :
              list[k] < 0 \/ list[k] >= Len(R.sifted_receiver_key)

\* C27: when CHECK_INDICES_REL_SIFT contains an index below 0 or at or above
\* the length of the receiver's sifted key, the receiver sends no CHECK_BITS
\* (so discloses no bit, whether inside or outside its sifted key) and ends
\* with a failed status and no key.
C27_BadCheckIndexRejected ==
    [][ReceiverReadsBadCheckIndex =>
        /\ ~Wrote(r_out, r_out', "CHECK_BITS")
        /\ R'.pc = "done"
        /\ R'.status = "Error"
        /\ R'.final_key = NoKey /\ R'.qkd_seed = NoSeed
        /\ R'.final_key_bits = <<>>]_vars

\* the receiver, holding a sifted key, was asked for index -1 and failed
C27_Witness ==
    /\ R.pc = "done"
    /\ R.exc = "IndexError"
    /\ R.data_type = <<"CHECK_INDICES_REL_SIFT">>
    /\ R.indices_to_check_relative_sifted = <<-1>>
    /\ Len(R.sifted_receiver_key) >= 1

\* C28: the CHECK_BITS payload has exactly as many characters as indices
\* were requested in the CHECK_INDICES_REL_SIFT message just read, and its
\* k-th character is the receiver's sifted-key bit at the k-th requested
\* index, in the order requested.
C28_CheckBitsAnswerRequest ==
    [][Wrote(r_out, r_out', "CHECK_BITS") =>
        LET data == Flatten(Taken(ReceiverIn, ReceiverIn'))
            requested == IntListOf(SubSeq(data, 3, Len(data)))
            frame == Added(r_out, r_out')[1]
            payload == SubSeq(frame, 3, Len(frame))
        IN  /\ Len(Added(r_out, r_out')) = 1
            /\ data[1] = "CHECK_INDICES_REL_SIFT"
            /\ Len(payload) = Len(requested)
            /\ \A k \in 1..Len(requested) :
                  /\ requested[k] \in 0..(Len(R.sifted_receiver_key) - 1)
                  /\ <<payload[k]>>
                        = StrOfInt(R.sifted_receiver_key[requested[k] + 1])]_vars

\* asked for positions 1 and 0, in this order, of a sifted key whose two
\* bits differ, the receiver has answered
C28_Witness ==
    /\ R.pc = "await_confirm"
    /\ R.indices_to_check_relative_sifted = <<1, 0>>
    /\ Len(R.sifted_receiver_key) = 2
    /\ R.sifted_receiver_key[1] # R.sifted_receiver_key[2]
    /\ \E k \in 1..Len(r_out) : r_out[k][1] = "CHECK_BITS" /\ Len(r_out[k]) = 4

\* the message the receiver takes off its stream in this step, as
\* PublicChannel.receive splits it
ReceiverTakes ==
    receive([st |-> "data", rest |-> <<>>,
             data |-> Flatten(Taken(ReceiverIn, ReceiverIn'))])

\* the receiver, waiting for the confirmation, reads a message
ReceiverReadsAtConfirm ==
    /\ R.pc = "await_confirm"
    /\ R' # R
    /\ Len(ReceiverIn') < Len(ReceiverIn)

\* C29: the receiver ends with Success only in the step in which, waiting
\* for the confirmation, it reads CONFIRM_KEY; when it reads ABORT there, it
\* ends with an aborted status carrying the reason and no key; when it
\* reads any other message type there, it ends as a protocol violation
\* (TypeError) with no key.
C29_ConfirmOutcomes ==
    [][/\ (R'.status = "Success" /\ R.status # "Success") =>
            /\ ReceiverReadsAtConfirm
            /\ ReceiverTakes.type = <<"CONFIRM_KEY">>
       /\ (ReceiverReadsAtConfirm /\ ReceiverTakes.type = <<"ABORT">>) =>
            /\ R'.pc = "done"
            /\ R'.status = "Aborted"
            /\ R'.content = ReceiverTakes.content
            /\ R'.final_key = NoKey /\ R'.qkd_seed = NoSeed
       /\ (ReceiverReadsAtConfirm
             /\ ReceiverTakes.type \notin {<<>>, <<"ABORT">>, <<"CONFIRM_KEY">>}) =>
            /\ R'.pc = "done"
            /\ R'.status = "Error" /\ R'.exc = "TypeError"
            /\ R'.final_key = NoKey /\ R'.qkd_seed = NoSeed]_vars

\* having disclosed a check bit, the receiver was sent ABORT:QBER_HIGH
C29_Witness ==
    /\ R.pc = "done"
    /\ R.status = "Aborted"
    /\ R.content = <<"QBER_HIGH">>
    /\ Len(R.indices_to_check_relative_sifted) >= 1

\* the receiver's collection ended with no event recorded
CollectedNothing ==
    R.pc \notin {"collect", "absent"} /\ Len(R.received_photon_info) = 0

\* C30: if the receiver's collection phase ends with zero events recorded,
\* the receiver fails the session in that step without sending BOB_BASES
\* and keeps no key, and the sender, awaiting BOB_BASES, ends at its next
\* step with a failed status and no key.
C30_NothingCollectedFailsBoth ==
    /\ [][(R.pc = "collect" /\ R'.pc # "collect"
            /\ Len(R'.received_photon_info) = 0) =>
              /\ R'.pc = "done" /\ R'.status = "Error"
              /\ ~Wrote(r_out, r_out', "BOB_BASES")]_vars
    /\ [](CollectedNothing =>
            /\ R.final_key = NoKey /\ R.qkd_seed = NoSeed
            /\ S.pc = "done" => (/\ S.status = "Error"
                                 /\ S.final_key = NoKey /\ S.qkd_seed = NoSeed))
    /\ [][(CollectedNothing /\ S.pc = "await_bases" /\ S' # S) =>
              S'.pc = "done"]_vars

\* every event was dropped; the receiver read SYNC with count 0 and failed,
\* and the sender, having read the receiver's ABORT, failed as well
C30_Witness ==
    /\ args.loss_rate = 10
    /\ CollectedNothing
    /\ R.data_type = <<"SYNC">> /\ R.photons_expected_from_sync = 0
    /\ R.status = "Error"
    /\ S.pc = "done" /\ S.data_type = <<"ABORT">> /\ S.status = "Error"

\* C31: a seed that came from the fallback of the seed derivation (empty key
\* or key shorter than 8 bits) is treated as a failure and flagged in the
\* statistics of the session: a role holding such a seed does not report
\* the status Success that it reports for a seed derived from the key.
C31_FallbackSeedFlagged ==
    /\ S.qkd_seed.kind = "random" => S.status # "Success"
    /\ R.qkd_seed.kind = "random" => R.status # "Success"

SenderPastMain == S.fh_pc # "main"

ReceiverPastMain == R.fh_pc # "main"

\* C33: on each side the frequency-hopping phase starts only after that
\* side's QKD role returned a seed with status Success; when its QKD role
\* failed, the hopping phase is skipped on that side: the FH status is set
\* to skipped and the side sends no FH_READY and no FH_ACK.
C33_HoppingOnlyAfterSuccess ==
    /\ SenderPastMain => S.pc = "done"
    /\ ReceiverPastMain => R.pc = "done"
    /\ (SenderPastMain /\ S.fh_status # "Skipped (QKD Fail)") =>
            (S.status = "Success" /\ S.qkd_seed # NoSeed)
    /\ (ReceiverPastMain /\ R.fh_status # "Skipped (QKD Fail)") =>
            (R.status = "Success" /\ R.qkd_seed # NoSeed)
    /\ (SenderPastMain /\ S.status # "Success") =>
            (S.fh_status = "Skipped (QKD Fail)" /\ S.fh_pc = "exit")
    /\ (ReceiverPastMain /\ R.status # "Success") =>
            (R.fh_status = "Skipped (QKD Fail)" /\ R.fh_pc = "exit")
    /\ S.status # "Success" => fh.s2r = <<>>
    /\ R.status # "Success" => fh.r2s = <<>>

\* the sender's key came out too short after CONFIRM_KEY: it skipped the
\* hopping phase while the receiver entered it and waits for FH_READY
C33_Witness ==
    /\ S.status = "Key Too Short"
    /\ S.fh_status = "Skipped (QKD Fail)"
    /\ R.status = "Success"
    /\ R.fh_pc = "await_ready"

\* both roles have returned and were given the same desired key length (a
\* role that returned before reading it constrains nothing)
BothReturnedSameLength ==
    /\ S.pc = "done" /\ R.pc = "done"
    /\ S.key_length = 0 \/ R.key_length = 0 \/ S.key_length = R.key_length

\* C34: in every session without an interceptor in which both roles use the
\* same desired key length, once both have returned the sender's status is
\* Success if and only if the receiver's is, including the case where the
\* sender sent CONFIRM_KEY and then found its key too short.
C34_OutcomesAgree ==
    (~args.eve /\ BothReturnedSameLength) =>
        (S.status = "Success" <=> R.status = "Success")

\* of three events two were sifted and one sampled: the sender confirmed
\* and found its key too short, and so did the receiver on CONFIRM_KEY
C34_Witness ==
    /\ ~args.eve /\ BothReturnedSameLength
    /\ args.photon_count = MaxPhotons
    /\ S.status = "Key Too Short"
    /\ R.data_type = <<"CONFIRM_KEY">>
    /\ R.status = "Key Too Short"
    /\ Len(R.sifted_receiver_key) = 2

\* how many messages with this tag a step appends to a stream
WroteCount(before, after, tag) ==
    Cardinality({k \in 1..Len(Added(before, after)) :
                    Added(before, after)[k][1] = tag})

\* C35: in every session the sender sends at most one CONFIRM_KEY and never
\* both CONFIRM_KEY and ABORT: a step sends at most one CONFIRM_KEY and
\* never the two together, and a step that sends either is the step in which
\* the sender returns, after which it sends nothing.
C35_ConfirmOrAbort ==
    [][/\ WroteCount(s_out, s_out', "CONFIRM_KEY") <= 1
       /\ ~(Wrote(s_out, s_out', "CONFIRM_KEY") /\ Wrote(s_out, s_out', "ABORT"))
       /\ (Wrote(s_out, s_out', "CONFIRM_KEY") \/ Wrote(s_out, s_out', "ABORT")) =>
            (S.pc # "done" /\ S'.pc = "done")
       /\ S.pc = "done" => Len(Added(s_out, s_out')) = 0]_vars

\* with Eve on the line the sender has confirmed a key that came out too
\* short, and its CONFIRM_KEY is still unread
C35_Witness ==
    /\ args.eve
    /\ S.pc = "done" /\ S.status = "Key Too Short"
    /\ \E k \in 1..Len(s_out) : s_out[k][1] = "CONFIRM_KEY"
    /\ \A k \in 1..Len(s_out) : s_out[k][1] # "ABORT"

\* both roles have returned with a status set
BothReturned ==
    /\ S.pc = "done" /\ S.status # "Not Started"
    /\ R.pc = "done" /\ R.status # "Not Started"

\* C36: every session terminates: given that each blocking receive returns
\* within its timeout, both roles eventually return with Success or a
\* failed status, and neither waits for ever for a message the peer will
\* never send, whatever step the peer failed in.
C36_SessionTerminates == <>[]BothReturned

\* the receiver failed while collecting (no event recorded) and the sender,
\* which was waiting for BOB_BASES, has returned as well
C36_Witness ==
    /\ BothReturned
    /\ R.status = "Error" /\ Len(R.received_photon_info) = 0
    /\ S.status = "Error" /\ S.data_type # <<"BOB_BASES">>
    /\ Len(S.photons_sent_indices) >= 1

\* the receiver, waiting for the matches, reads one MATCH_INDICES_REL
\* message whose list has an index below 0 or at or above the number of
\* events it received
ReceiverReadsBadMatchIndex ==
    LET data == Flatten(Taken(ReceiverIn, ReceiverIn'))
        list == IntListOf(SubSeq(data, 3, Len(data)))
    IN  /\ R.pc = "await_matches"
        /\ R' # R
        /\ Len(data) >= 3
        /\ data[1] = "MATCH_INDICES_REL" /\ data[2] = ":"
        /\ IntListParses(SubSeq(data, 3, Len(data)))
        /\ \E k \in 1..Len(list) :
              list[k] < 0 \/ list[k] >= Len(R.received_photon_info)

\* the receiver builds a sifted key from the matches it has just read
ReceiverBuildsSiftedKey ==
    /\ R.pc = "await_matches"
    /\ R'.pc = "await_check_indices"

\* C37: when MATCH_INDICES_REL contains an index that is not a position of
\* the receiver's received-event list (below 0, or at or above the number of
\* events received), the receiver fails the session with an out-of-bounds
\* error and builds no sifted key; every bit of a sifted key it does build is
\* the measured bit at the named position, in the order the indices were
\* listed.
C37_BadMatchIndexRejected ==
    [][/\ ReceiverReadsBadMatchIndex =>
            /\ R'.pc = "done"
            /\ R'.status = "Error"
            /\ R'.exc = "IndexError"
            /\ R'.sifted_receiver_key = <<>>
       /\ ReceiverBuildsSiftedKey =>
            LET match == R'.match_indices_relative_to_bob
            IN  /\ Len(R'.sifted_receiver_key) = Len(match)
                /\ \A k \in 1..Len(match) :
                      /\ match[k] \in 0..(Len(R.received_photon_info) - 1)
                      /\ R'.sifted_receiver_key[k] =
                            At(R.received_photon_info, match[k]).measured_bit
      ]_vars

\* the receiver reads data that begins with an ABORT message
ReceiverReadsAbort ==
    LET data == Flatten(Taken(ReceiverIn, ReceiverIn'))
    IN  /\ R.pc # "done"
        /\ R' # R
        /\ Len(data) >= 2
        /\ data[1] = "ABORT" /\ data[2] = ":"

CompleteTransmission ==
    /\ S.fh_pc = "exit" /\ S.fh_status = "Success"
    /\ R.fh_pc = "exit"
    /\ S.qkd_seed = R.qkd_seed
    /\ S.message = R.message
    /\ R.chars_received = Len(R.message)
    /\ R.malformed_packets = 0

\* C39: in a complete frequency-hopping transmission, where both sides use
\* the same seed and the same message and every packet is delivered one per
\* receive, the receiver reconstructs the message with no frequency mismatch
\* and its FH status ends as 'Success (FH_END Received)' after the sender's
\* FH_END.
C39_CompleteTransmissionSucceeds ==
    CompleteTransmission =>
        /\ R.received_message = R.message
        /\ R.freq_mismatches = 0
        /\ R.fh_status = "Success (FH_END Received)"

====
